---- MODULE Spec2Model ----
(***************************************************************************)
(* Tabular (CSV) cache and query subsystem of the keenbench pyworker        *)
(* (engine/tools/pyworker/worker.py).                                       *)
(*                                                                          *)
(* Two parts share this module:                                             *)
(*   - the query validator, a pure function on query text, modelled on      *)
(*     sequences of one-character strings exactly as the code scans them;   *)
(*   - the cache store: source files, cache file, write-ahead file and      *)
(*     metadata record on disk, and worker processes stepping through       *)
(*     ensure_cache / rebuild / read;                                       *)
(*   - the cancellation supervisor: the thread of a supervised operation    *)
(*     and the thread of its watchdog timer;                                *)
(*   - the tools that run caller queries on the cache: query, export and    *)
(*     update_from_export, with the files they write.                       *)
(***************************************************************************)
EXTENDS Integers, Sequences, FiniteSets, TLC

VARIABLES
    rawItems,   \* the caller's query as lexical items (text = their concatenation)
    rawInfo,    \* about rawItems: stmt ("query", "modify", "other"), items appended
    vres,       \* result of _tabular_validate_query on the text, or NotValidated
    src,        \* source CSV files of the workbench: file -> None | [content, mtime]
    db,         \* <key>.duckdb per cache key: state absent/partial/complete, content
    wal,        \* <key>.duckdb.wal per cache key: present or not
    meta,       \* <key>.meta.json per cache key: None | Corrupt | metadata record
    pc,         \* per worker process: position in the request it is serving
    req,        \* per worker process: the request parameters
    loc,        \* per worker process: locals (signature, metadata, observation)
    ret,        \* per worker process: what the last finished request returned
    hist,       \* history: bookkeeping the properties are stated with
    sup,        \* one call of _tabular_run_with_timeout: both threads and its flags
    xreq,       \* tool request: query, window, export target and format
    art,        \* workbook and temporary file an export or update writes
    run,        \* tool request: connection, statement results, progress
    xh,         \* history of the tool requests the properties are stated with
    gr          \* one call of _tabular_open_connection: the guardrail statements

valVars == <<rawItems, rawInfo, vres>>
cacheVars == <<src, db, wal, meta, pc, req, loc, ret, hist>>
supVars == <<sup>>
toolVars == <<xreq, art, run, xh, gr>>
vars == <<rawItems, rawInfo, vres, src, db, wal, meta, pc, req, loc, ret, hist,
          sup, xreq, art, run, xh, gr>>

None == "none"

(***************************************************************************)
(* Text helpers: Python str methods used by the validator.                  *)
(***************************************************************************)
UpperLetters == <<"A","B","C","D","E","F","G","H","I","J","K","L","M",
                  "N","O","P","Q","R","S","T","U","V","W","X","Y","Z">>
LowerLetters == <<"a","b","c","d","e","f","g","h","i","j","k","l","m",
                  "n","o","p","q","r","s","t","u","v","w","x","y","z">>
Digits == {"0","1","2","3","4","5","6","7","8","9"}

\* str.lower() on one character
LowerChar(c) ==
    IF \E i \in 1..26 : UpperLetters[i] = c
    THEN LowerLetters[CHOOSE i \in 1..26 : UpperLetters[i] = c]
    ELSE c

RECURSIVE Lower(_)
\* str.lower()
Lower(s) == IF s = <<>> THEN <<>> ELSE <<LowerChar(Head(s))>> \o Lower(Tail(s))

\* str.isspace() on one character (the whitespace str.strip, str.split and \s use)
IsSpace(c) == c \in {" ", "\n", "\t"}

RECURSIVE LStrip(_)
LStrip(s) == IF s # <<>> /\ IsSpace(Head(s)) THEN LStrip(Tail(s)) ELSE s

RECURSIVE RStrip(_)
\* str.rstrip()
RStrip(s) ==
    IF s # <<>> /\ IsSpace(s[Len(s)]) THEN RStrip(SubSeq(s, 1, Len(s) - 1)) ELSE s

\* str.strip()
Strip(s) == RStrip(LStrip(s))

\* str.count(ch)
Count(s, ch) == Cardinality({i \in 1..Len(s) : s[i] = ch})

\* str.endswith(ch)
EndsWith(s, ch) == s # <<>> /\ s[Len(s)] = ch

\* s[:-1]
DropLast(s) == SubSeq(s, 1, Len(s) - 1)

RECURSIVE FirstRun(_)
FirstRun(s) ==
    IF s = <<>> \/ IsSpace(Head(s)) THEN <<>> ELSE <<Head(s)>> \o FirstRun(Tail(s))

\* s.split(None, 1)[0]: the first whitespace-delimited token
FirstToken(s) == FirstRun(LStrip(s))

RECURSIVE Str(_)
\* "".join(chars): a character list as one string (tokens are compared as strings)
Str(s) == IF s = <<>> THEN "" ELSE Head(s) \o Str(Tail(s))

(***************************************************************************)
(* _tabular_strip_sql_literals_and_comments: the scanning copy.             *)
(* StripFrom(sql, i, state) is what the loop appends to `out` from index i  *)
(* on, entered in `state`.                                                  *)
(***************************************************************************)
\* one iteration of the while loop at index i in `state`: what it appends to
\* `out`, the index it moves to and the state it leaves
StripStep(sql, i, state) ==
    LET ch == sql[i]
        nxt == IF i + 1 <= Len(sql) THEN sql[i + 1] ELSE ""
        Go(out, step, st) == [out |-> out, i |-> i + step, state |-> st]
    IN
    CASE state = "normal" ->
           IF ch = "'" THEN Go(<<" ">>, 1, "single_quote")
           ELSE IF ch = "\"" THEN Go(<<" ">>, 1, "double_quote")
           ELSE IF ch = "-" /\ nxt = "-" THEN Go(<<>>, 2, "line_comment")
           ELSE IF ch = "/" /\ nxt = "*" THEN Go(<<>>, 2, "block_comment")
           ELSE Go(<<ch>>, 1, "normal")
      [] state = "single_quote" ->
           IF ch = "'" /\ nxt = "'" THEN Go(<<>>, 2, "single_quote")
           ELSE IF ch = "'" THEN Go(<<>>, 1, "normal")
           ELSE Go(<<>>, 1, "single_quote")
      [] state = "double_quote" ->
           IF ch = "\"" /\ nxt = "\"" THEN Go(<<>>, 2, "double_quote")
           ELSE IF ch = "\"" THEN Go(<<>>, 1, "normal")
           ELSE Go(<<>>, 1, "double_quote")
      [] state = "line_comment" ->
           IF ch = "\n" THEN Go(<<"\n">>, 1, "normal")
           ELSE Go(<<>>, 1, "line_comment")
      [] OTHER ->
           IF ch = "*" /\ nxt = "/" THEN Go(<<>>, 2, "normal")
           ELSE IF ch = "\n" THEN Go(<<"\n">>, 1, "block_comment")
           ELSE Go(<<>>, 1, "block_comment")

RECURSIVE StripFrom(_, _, _)
StripFrom(sql, i, state) ==
    IF i > Len(sql) THEN <<>>
    ELSE LET s == StripStep(sql, i, state)
         IN s.out \o StripFrom(sql, s.i, s.state)

StripSql(sql) == StripFrom(sql, 1, "normal")

(***************************************************************************)
(* The keyword scan.                                                        *)
(***************************************************************************)
_DANGEROUS_KEYWORDS ==
    {"insert", "update", "delete", "drop", "alter", "create", "replace",
     "truncate", "copy", "attach", "detach", "pragma", "set", "call",
     "vacuum", "analyze", "grant", "revoke", "comment", "install",
     "load", "export", "import", "merge"}

_IDENT_CONTEXT_TOKENS ==
    {"select", "from", "join", "on", "as", "by", "where", "having",
     "and", "or", "not", "in", "between", "like", "ilike", "is",
     "when", "then", "else", "distinct", "all", "over", "partition",
     "using", "limit", "offset", "case", "end", "with", "recursive",
     "filter", "within", "respect", "ignore", "nulls", "asc", "desc",
     "group", "order", "into",
     ",", ".", "(", ")", "=", "<", ">", "!", "+", "-", "*", "/",
     "|", "&", "^", "~", "%"}

\* the single characters _TOKEN_SPLIT_RE splits on (besides runs of whitespace)
SplitPunct ==
    {",", ";", ".", "(", ")", "[", "]", "=", "<", ">", "!", "+", "-", "*", "/",
     "|", "&", "^", "~", "%"}

RECURSIVE TokensFrom(_, _, _)
TokensFrom(s, i, cur) ==
    LET flush == IF cur = <<>> THEN <<>> ELSE <<Str(cur)>> IN
    IF i > Len(s) THEN flush
    ELSE IF IsSpace(s[i]) THEN flush \o TokensFrom(s, i + 1, <<>>)
    ELSE IF s[i] \in SplitPunct THEN flush \o <<s[i]>> \o TokensFrom(s, i + 1, <<>>)
    ELSE TokensFrom(s, i + 1, Append(cur, s[i]))

\* [p for p in _TOKEN_SPLIT_RE.split(lowered_sql) if p.strip()]
Tokens(s) == TokensFrom(s, 1, <<>>)

\* Python's None for `prev` and for the scan's result (no token is empty)
NoToken == ""

RECURSIVE ScanTokensNoException(_, _, _)
\* the scan without the identifier exception: any keyword token is a hit
ScanTokensNoException(tokens, i, prev) ==
    IF i > Len(tokens) THEN NoToken
    ELSE IF tokens[i] \in _DANGEROUS_KEYWORDS
         THEN tokens[i]
         ELSE ScanTokensNoException(tokens, i + 1, tokens[i])

RECURSIVE ScanTokens(_, _, _)
\* the for loop of _tabular_find_dangerous_keyword from token i with `prev`
ScanTokens(tokens, i, prev) ==
    IF i > Len(tokens) THEN NoToken
    ELSE IF tokens[i] \in _DANGEROUS_KEYWORDS
         THEN IF prev # NoToken /\ prev \in _IDENT_CONTEXT_TOKENS
              THEN ScanTokens(tokens, i + 1, tokens[i])
              ELSE tokens[i]
         ELSE ScanTokens(tokens, i + 1, tokens[i])

_tabular_find_dangerous_keyword(lowered_sql) == ScanTokens(Tokens(lowered_sql), 1, NoToken)

(***************************************************************************)
(* The path-function pattern                                                *)
(*   \b(read_[a-z0-9_]+|[a-z0-9_]+_scan|glob|open_url|httpfs|read_csv|      *)
(*      read_parquet|read_json)\s*\(                                        *)
(* searched in the lowered scanning copy.                                   *)
(***************************************************************************)
\* \w on the text the validator lowers (ASCII letters, digits, underscore)
IsWordChar(c) ==
    \/ c \in Digits
    \/ c = "_"
    \/ \E i \in 1..26 : c = LowerLetters[i] \/ c = UpperLetters[i]

\* [a-z0-9_]
IsNameChar(c) ==
    c \in Digits \/ c = "_" \/ \E i \in 1..26 : c = LowerLetters[i]

\* \b at the gap before index p
WordBoundary(s, p) ==
    LET before == p > 1 /\ IsWordChar(s[p - 1])
        after == p <= Len(s) /\ IsWordChar(s[p])
    IN before # after

\* the literal `lit` stands at s[p..]
LitAt(s, p, lit) ==
    p + Len(lit) - 1 <= Len(s) /\ SubSeq(s, p, p + Len(lit) - 1) = lit

\* \s*\( matches at index p
RECURSIVE CallTail(_, _)
CallTail(s, p) ==
    /\ p <= Len(s)
    /\ \/ s[p] = "("
       \/ IsSpace(s[p]) /\ CallTail(s, p + 1)

PathFunctionNames ==
    {<<"g","l","o","b">>, <<"o","p","e","n","_","u","r","l">>,
     <<"h","t","t","p","f","s">>, <<"r","e","a","d","_","c","s","v">>,
     <<"r","e","a","d","_","p","a","r","q","u","e","t">>,
     <<"r","e","a","d","_","j","s","o","n">>}

\* the group matches s[p..q-1] for some q, and \s*\( matches at q
PathFunctionAt(s, p) ==
    \/ \E q \in p + 6 .. Len(s) + 1 :
          /\ LitAt(s, p, <<"r","e","a","d","_">>)
          /\ \A k \in p + 5 .. q - 1 : IsNameChar(s[k])
          /\ CallTail(s, q)
    \/ \E q \in p + 6 .. Len(s) + 1 :
          /\ \A k \in p .. q - 6 : IsNameChar(s[k])
          /\ LitAt(s, q - 5, <<"_","s","c","a","n">>)
          /\ CallTail(s, q)
    \/ \E lit \in PathFunctionNames : LitAt(s, p, lit) /\ CallTail(s, p + Len(lit))

\* re.search(pattern, lowered) is not None
HasPathFunction(lowered) ==
    \E p \in 1..Len(lowered) : WordBoundary(lowered, p) /\ PathFunctionAt(lowered, p)

(***************************************************************************)
(* _tabular_validate_query.  The result is [ok, code, message, query]:      *)
(* ok with the safe query returned, or the WorkerError raised.              *)
(***************************************************************************)
NotValidated == [ok |-> FALSE, code |-> "", message |-> "", query |-> <<>>]
Rejected(msg) == [ok |-> FALSE, code |-> "VALIDATION_FAILED", message |-> msg, query |-> <<>>]
Accepted(q) == [ok |-> TRUE, code |-> "", message |-> "", query |-> q]

\* the tail with the keyword scan run before the leading-token check
ValidateTailKeywordFirst(checked, query) ==
    IF _tabular_find_dangerous_keyword(Lower(checked)) # NoToken
    THEN Rejected("query must be read-only")
    ELSE IF Str(Lower(FirstToken(checked))) \notin {"select", "with"}
    THEN Rejected("only SELECT/CTE queries are allowed")
    ELSE IF HasPathFunction(Lower(checked))
    THEN Rejected("path-reading functions are not allowed")
    ELSE Accepted(query)

\* lines 5366-5380: leading token, keyword scan, path-function pattern
ValidateTail(checked, query) ==
    IF Str(Lower(FirstToken(checked))) \notin {"select", "with"}
    THEN Rejected("only SELECT/CTE queries are allowed")
    ELSE IF _tabular_find_dangerous_keyword(Lower(checked)) # NoToken
    THEN Rejected("query must be read-only")
    ELSE IF HasPathFunction(Lower(checked))
    THEN Rejected("path-reading functions are not allowed")
    ELSE Accepted(query)

\* lines 5353-5364: the single-statement rule
ValidateSemicolons(checked, query) ==
    IF Count(checked, ";") > 1
    THEN Rejected("query must be a single statement")
    ELSE IF Count(checked, ";") = 1
    THEN IF ~EndsWith(checked, ";")
         THEN Rejected("query must be a single statement")
         ELSE IF ~EndsWith(RStrip(query), ";")
         THEN Rejected("query must end with ';'")
         ELSE IF Strip(DropLast(checked)) = <<>>
         THEN Rejected("invalid query")
         ELSE ValidateTail(Strip(DropLast(checked)), Strip(DropLast(RStrip(query))))
    ELSE ValidateTail(checked, query)

_tabular_validate_query(raw_query) ==
    LET query == Strip(raw_query) IN
    IF query = <<>> THEN Rejected("missing query")
    ELSE LET checked == Strip(StripSql(query)) IN
         IF checked = <<>> THEN Rejected("invalid query")
         ELSE ValidateSemicolons(checked, query)

(***************************************************************************)
(* Query texts.  A query is kept as the lexical items the caller wrote, so  *)
(* that what stands inside a literal or a comment is known from how the     *)
(* text was written and not from the scanner under study:                   *)
(*   word   an identifier, keyword or number;   punct  one operator char;   *)
(*   ws     one whitespace character;                                       *)
(*   sq/dq  a single-/double-quoted literal, quotes included;               *)
(*   lc     a line comment with its newline;    bc     a block comment.     *)
(* The text handed to the validator is the concatenation of the items.      *)
(***************************************************************************)

ItSpace == [k |-> "ws", t |-> <<" ">>]

ItNewline == [k |-> "ws", t |-> <<"\n">>]

ItSemi == [k |-> "punct", t |-> <<";">>]

ItOpen == [k |-> "punct", t |-> <<"(">>]

ItClose == [k |-> "punct", t |-> <<")">>]

ItUpdate == [k |-> "word", t |-> <<"u","p","d","a","t","e">>]

ItDAt == [k |-> "word", t |-> <<"d","_","a","t">>]

ItComment == [k |-> "word", t |-> <<"c","o","m","m","e","n","t">>]

ItReadCsv == [k |-> "word", t |-> <<"r","e","a","d","_","c","s","v">>]

ItBlockComment == [k |-> "bc", t |-> <<"/","*",";","*","/">>]

ItLineComment == [k |-> "lc", t |-> <<"-","-",";","\n">>]

ItSqLiteral == [k |-> "sq", t |-> <<"'",";","'">>]

ItDqLiteral == [k |-> "dq", t |-> <<"\"","a","\"">>]

\* SELECT 1
QSelect1 ==
    <<[k |-> "word", t |-> <<"S","E","L","E","C","T">>],
      [k |-> "ws", t |-> <<" ">>],
      [k |-> "word", t |-> <<"1">>]>>

\* SELECT * FROM
QStarFrom ==
    <<[k |-> "word", t |-> <<"S","E","L","E","C","T">>],
      [k |-> "ws", t |-> <<" ">>],
      [k |-> "punct", t |-> <<"*">>],
      [k |-> "ws", t |-> <<" ">>],
      [k |-> "word", t |-> <<"F","R","O","M">>]>>

\* SELECT Comment FROM data
QComment ==
    <<[k |-> "word", t |-> <<"S","E","L","E","C","T">>],
      [k |-> "ws", t |-> <<" ">>],
      [k |-> "word", t |-> <<"C","o","m","m","e","n","t">>],
      [k |-> "ws", t |-> <<" ">>],
      [k |-> "word", t |-> <<"F","R","O","M">>],
      [k |-> "ws", t |-> <<" ">>],
      [k |-> "word", t |-> <<"d","a","t","a">>]>>

\* select updated_at from data
QUpdatedAt ==
    <<[k |-> "word", t |-> <<"s","e","l","e","c","t">>],
      [k |-> "ws", t |-> <<" ">>],
      [k |-> "word", t |-> <<"u","p","d","a","t","e","d","_","a","t">>],
      [k |-> "ws", t |-> <<" ">>],
      [k |-> "word", t |-> <<"f","r","o","m">>],
      [k |-> "ws", t |-> <<" ">>],
      [k |-> "word", t |-> <<"d","a","t","a">>]>>

\* SELECT Update
QSelectUpdate ==
    <<[k |-> "word", t |-> <<"S","E","L","E","C","T">>],
      [k |-> "ws", t |-> <<" ">>],
      [k |-> "word", t |-> <<"U","p","d","a","t","e">>]>>

\* DROP TABLE data
QDrop ==
    <<[k |-> "word", t |-> <<"D","R","O","P">>],
      [k |-> "ws", t |-> <<" ">>],
      [k |-> "word", t |-> <<"T","A","B","L","E">>],
      [k |-> "ws", t |-> <<" ">>],
      [k |-> "word", t |-> <<"d","a","t","a">>]>>

\* SELECT * FROM data; DROP TABLE data
QMulti ==
    <<[k |-> "word", t |-> <<"S","E","L","E","C","T">>],
      [k |-> "ws", t |-> <<" ">>],
      [k |-> "punct", t |-> <<"*">>],
      [k |-> "ws", t |-> <<" ">>],
      [k |-> "word", t |-> <<"F","R","O","M">>],
      [k |-> "ws", t |-> <<" ">>],
      [k |-> "word", t |-> <<"d","a","t","a">>],
      [k |-> "punct", t |-> <<";">>],
      [k |-> "ws", t |-> <<" ">>],
      [k |-> "word", t |-> <<"D","R","O","P">>],
      [k |-> "ws", t |-> <<" ">>],
      [k |-> "word", t |-> <<"T","A","B","L","E">>],
      [k |-> "ws", t |-> <<" ">>],
      [k |-> "word", t |-> <<"d","a","t","a">>]>>

\* SELECT 1;
QSemi ==
    <<[k |-> "word", t |-> <<"S","E","L","E","C","T">>],
      [k |-> "ws", t |-> <<" ">>],
      [k |-> "word", t |-> <<"1">>],
      [k |-> "punct", t |-> <<";">>]>>

\* WITH x AS (SELECT 1)
QCteHead ==
    <<[k |-> "word", t |-> <<"W","I","T","H">>],
      [k |-> "ws", t |-> <<" ">>],
      [k |-> "word", t |-> <<"x">>],
      [k |-> "ws", t |-> <<" ">>],
      [k |-> "word", t |-> <<"A","S">>],
      [k |-> "ws", t |-> <<" ">>],
      [k |-> "punct", t |-> <<"(">>],
      [k |-> "word", t |-> <<"S","E","L","E","C","T">>],
      [k |-> "ws", t |-> <<" ">>],
      [k |-> "word", t |-> <<"1">>],
      [k |-> "punct", t |-> <<")">>]>>

\* INSERT INTO data SELECT * FROM x
QInsertTail ==
    <<[k |-> "word", t |-> <<"I","N","S","E","R","T">>],
      [k |-> "ws", t |-> <<" ">>],
      [k |-> "word", t |-> <<"I","N","T","O">>],
      [k |-> "ws", t |-> <<" ">>],
      [k |-> "word", t |-> <<"d","a","t","a">>],
      [k |-> "ws", t |-> <<" ">>],
      [k |-> "word", t |-> <<"S","E","L","E","C","T">>],
      [k |-> "ws", t |-> <<" ">>],
      [k |-> "punct", t |-> <<"*">>],
      [k |-> "ws", t |-> <<" ">>],
      [k |-> "word", t |-> <<"F","R","O","M">>],
      [k |-> "ws", t |-> <<" ">>],
      [k |-> "word", t |-> <<"x">>]>>

\* ('x.csv')
QCallArgs ==
    <<[k |-> "punct", t |-> <<"(">>],
      [k |-> "sq", t |-> <<"'","x",".","c","s","v","'">>],
      [k |-> "punct", t |-> <<")">>]>>

\* how many items a caller appends to a starting text
MaxAppend == 2

Separators == {<<ItSpace>>, <<ItNewline>>, <<ItBlockComment>>, <<ItLineComment>>}

AppendItems ==
    {ItSpace, ItNewline, ItSemi, ItOpen, ItClose, ItUpdate, ItDAt, ItComment,
     ItReadCsv, ItBlockComment, ItLineComment, ItSqLiteral, ItDqLiteral}

\* statements that read: the literal cases of the acceptance table and an open prefix
ReadingQueries == {<<>>, QSelect1, QStarFrom, QComment, QUpdatedAt, QSelectUpdate, QSemi}

\* SELECT * FROM <sep> read_csv('x.csv')
PathFunctionQueries ==
    {QStarFrom \o sep \o <<ItReadCsv>> \o QCallArgs : sep \in Separators}

\* statements that change the table: DROP, a second DROP statement, and
\* WITH x AS (SELECT 1) <sep> INSERT INTO data SELECT * FROM x
ModifyingQueries ==
    {QDrop, QMulti} \cup {QCteHead \o sep \o QInsertTail : sep \in Separators}

StartQueries == ReadingQueries \cup PathFunctionQueries \cup ModifyingQueries

IsTrivia(it) == it.k \in {"ws", "lc", "bc"}

RECURSIVE Text(_)
\* the query text: the items written one after the other
Text(items) == IF items = <<>> THEN <<>> ELSE Head(items).t \o Text(Tail(items))

RECURSIVE DropTrailingSpace(_)
\* the items the caller wrote, without the whitespace items at the end
DropTrailingSpace(items) ==
    IF items # <<>> /\ items[Len(items)].k = "ws"
    THEN DropTrailingSpace(DropLast(items))
    ELSE items

ValidatorInit ==
    /\ rawItems \in StartQueries
    /\ rawInfo = [stmt |-> IF rawItems \in ModifyingQueries THEN "modify" ELSE "query",
                  appended |-> 0]
    /\ vres = NotValidated

\* the caller writes one more item at the end of the query text
ComposeQuery(it) ==
    /\ vres = NotValidated
    /\ rawInfo.appended < MaxAppend
    /\ rawItems' = Append(rawItems, it)
    /\ rawInfo' = [stmt |-> IF IsTrivia(it) THEN rawInfo.stmt ELSE "other",
                   appended |-> rawInfo.appended + 1]
    /\ UNCHANGED vres
    /\ UNCHANGED <<cacheVars, supVars, toolVars>>

\* the caller hands the text to _tabular_validate_query
ValidateQuery ==
    /\ vres = NotValidated
    /\ vres' = _tabular_validate_query(Text(rawItems))
    /\ UNCHANGED <<rawItems, rawInfo>>
    /\ UNCHANGED <<cacheVars, supVars, toolVars>>

(***************************************************************************)
(* The cache store.                                                         *)
(*                                                                          *)
(* A source file holds one of a few contents (1..NumContents) and a         *)
(* modification time (1..MaxMtime).  The cache of a path lives under a key  *)
(* derived from the path: the table file, its write-ahead file and the      *)
(* metadata record.  A worker process serves one request at a time          *)
(* (main's loop), so a request is a sequence of steps in which the files    *)
(* are read and written one system call after the other; the owner of the   *)
(* workbench may rewrite a source file between any two steps, and the       *)
(* process may be killed between any two steps.                             *)
(***************************************************************************)
NumContents == 3
MaxMtime == 2

TABULAR_CACHE_VERSION == 1

Contents == 1..NumContents
Mtimes == 1..MaxMtime
Workers == {1, 2}

\* st_size of a file with content c: contents 1 and 2 have the same size
SizeOf(c) == 10 + (c \div 3)
\* sha256 of content c (distinct contents, distinct digests)
ShaOf(c) == 100 + c
\* rows read_csv_auto loads from content c
RowsOf(c) == 2 * c
\* content that read_csv_auto(ignore_errors=false) refuses: a malformed row
Malformed(c) == c % 3 = 0

PathLowerA == <<"a", ".", "c", "s", "v">>
PathUpperA == <<"A", ".", "c", "s", "v">>
RelPaths == {PathLowerA, PathUpperA}
\* the roots of a workbench that hold files: the draft and a staging copy
Roots == {"draft", "draft.s.staging"}
Files == [root : Roots, path : RelPaths]
\* the files of the draft
DraftFiles == [root : {"draft"}, path : RelPaths]
FileLowerA == [root |-> "draft", path |-> PathLowerA]
FileUpperA == [root |-> "draft", path |-> PathUpperA]
NoFileId == [root |-> None, path |-> <<>>]
\* the files the owner of the workbench rewrites while the worker runs
Edited == {FileLowerA}

\* a path of the file system with no file at it
NoFile == [content |-> 0, mtime |-> 0]
\* os.path.isfile(source_path)
Exists(file) == file.content # 0

\* _tabular_cache_key: the digest of the trimmed, lower-cased relative path
\* (the digest is written as the normalized path it is taken of)
_tabular_cache_key(rel_path) == Str(Lower(Strip(rel_path)))

\* the cache key of each path a request may name
KeyOf == [p \in RelPaths |-> _tabular_cache_key(p)]

Keys == {KeyOf[p] : p \in RelPaths}

\* what stands at <key>.meta.json: nothing, bytes json.load refuses, or a dict
MetaAbsent == [kind |-> "absent"]
Corrupt == [kind |-> "corrupt"]
\* Python's None where a metadata dict is expected
NoMetadata == [kind |-> "none"]

NoSignature == [size_bytes |-> 0, mtime_ns |-> 0, sha256 |-> 0]

\* _tabular_source_signature of a file that exists
_tabular_source_signature(file) ==
    [size_bytes |-> SizeOf(file.content),
     mtime_ns |-> file.mtime,
     sha256 |-> ShaOf(file.content)]

\* _tabular_load_metadata: None for a missing or unreadable record
_tabular_load_metadata(record) == IF record.kind = "dict" THEN record ELSE NoMetadata

\* the freshness test without the comparison of the content hashes
FreshIgnoringHash(metadata, rel_path, source_sig, db_state) ==
    /\ metadata.version = TABULAR_CACHE_VERSION
    /\ metadata.path = rel_path
    /\ metadata.size_bytes = source_sig.size_bytes
    /\ metadata.mtime_ns = source_sig.mtime_ns
    /\ db_state # "absent"
    /\ metadata.columns # None

\* _tabular_cache_is_fresh; db_state is what os.path.isfile(db_path) looks at
_tabular_cache_is_fresh(metadata, rel_path, source_sig, db_state) ==
    /\ metadata.version = TABULAR_CACHE_VERSION
    /\ metadata.path = rel_path
    /\ metadata.size_bytes = source_sig.size_bytes
    /\ metadata.mtime_ns = source_sig.mtime_ns
    /\ metadata.sha256 = source_sig.sha256
    /\ db_state # "absent"
    /\ metadata.columns # None

\* the metadata dict with the path written as the cache key normalizes it
RebuildMetadataKeyPath(source, source_sig, content) ==
    [kind |-> "dict",
     version |-> TABULAR_CACHE_VERSION,
     root |-> source.root,
     path |-> Lower(Strip(source.path)),
     size_bytes |-> source_sig.size_bytes,
     mtime_ns |-> source_sig.mtime_ns,
     sha256 |-> source_sig.sha256,
     row_count |-> RowsOf(content),
     columns |-> "c0"]

\* the metadata dict _tabular_rebuild_cache builds (lines 5060-5078) after
\* loading `content`
RebuildMetadata(source, source_sig, content) ==
    [kind |-> "dict",
     version |-> TABULAR_CACHE_VERSION,
     root |-> source.root,
     path |-> source.path,
     size_bytes |-> source_sig.size_bytes,
     mtime_ns |-> source_sig.mtime_ns,
     sha256 |-> source_sig.sha256,
     row_count |-> RowsOf(content),
     columns |-> "c0"]

\* an entry written by an earlier build of the worker (schema version below
\* the current one, no column list), still on disk
LegacyMetadata ==
    [kind |-> "dict",
     version |-> TABULAR_CACHE_VERSION - 1,
     root |-> "draft",
     path |-> PathLowerA,
     size_bytes |-> SizeOf(1),
     mtime_ns |-> 1,
     sha256 |-> ShaOf(1),
     row_count |-> RowsOf(1),
     columns |-> None]

\* <key>.duckdb: no file, a file whose table is not (yet) whole, a whole table
DbAbsent == [state |-> "absent", content |-> 0]
DbPartial == [state |-> "partial", content |-> 0]
DbComplete(c) == [state |-> "complete", content |-> c]

Operations == {"get_map", "read_rows"}

NoRequest == [op |-> None, root |-> None, path |-> <<>>]

NoLocals ==
    [sig |-> NoSignature, loaded |-> NoMetadata, db_seen |-> None,
     metadata |-> NoMetadata, rebuilt |-> FALSE, content |-> 0,
     stale |-> FALSE, retry |-> FALSE]

\* what a request answered: the response (data: the content the rows came
\* from), and for the properties what the cache file was found to be and what
\* the source held when the answer was made
NoResponse ==
    [ok |-> FALSE, code |-> None, op |-> None, data |-> 0, seen |-> None, current |-> 0]

ReqFile(w) == [root |-> req[w].root, path |-> req[w].path]
ReqKey(w) == KeyOf[req[w].path]

\* the steps of _tabular_rebuild_cache, and those after the cache file is gone
RebuildPcs == {"rm_db", "rm_wal", "rm_meta", "open_rw", "ingest", "close_rw", "write_meta"}
DestroyedPcs == RebuildPcs \ {"rm_db"}

NoLast == [file |-> NoFileId, metadata |-> NoMetadata]

HistInit ==
    [touched |-> [w \in Workers |-> FALSE],
     last |-> NoLast,
     changed |-> [f \in Files |-> FALSE],
     interrupted |-> [k \in Keys |-> FALSE],
     exported |-> [k \in Keys |-> NoFileId],
     loads |-> [w \in Workers |-> 0],
     load_failed |-> [k \in Keys |-> FALSE]]

\* the disk of a workbench: nothing cached yet, or an entry an earlier worker
\* build left (readable or not)
CacheInit ==
    /\ src = [f \in Files |-> [content |-> 1, mtime |-> 1]]
    /\ \/ /\ meta = [k \in Keys |-> MetaAbsent]
          /\ db = [k \in Keys |-> DbAbsent]
       \/ /\ meta \in {[k \in Keys |-> LegacyMetadata], [k \in Keys |-> Corrupt]}
          /\ db = [k \in Keys |-> DbComplete(1)]
    /\ wal = [k \in Keys |-> FALSE]
    /\ pc = [w \in Workers |-> "idle"]
    /\ req = [w \in Workers |-> NoRequest]
    /\ loc = [w \in Workers |-> NoLocals]
    /\ ret = [w \in Workers |-> NoResponse]
    /\ hist = HistInit

\* the cache store at rest, for the specification of the validator alone
CacheAtRest ==
    /\ src = [f \in Files |-> [content |-> 1, mtime |-> 1]]
    /\ meta = [k \in Keys |-> MetaAbsent]
    /\ db = [k \in Keys |-> DbAbsent]
    /\ wal = [k \in Keys |-> FALSE]
    /\ pc = [w \in Workers |-> "idle"]
    /\ req = [w \in Workers |-> NoRequest]
    /\ loc = [w \in Workers |-> NoLocals]
    /\ ret = [w \in Workers |-> NoResponse]
    /\ hist = HistInit

\* no query in hand, for the specifications of the cache store
ValidatorAtRest ==
    /\ rawItems = <<>>
    /\ rawInfo = [stmt |-> "query", appended |-> 0]
    /\ vres = NotValidated

(***************************************************************************)
(* Steps of a request.                                                      *)
(***************************************************************************)
\* the request of worker w ends with `response` (send_result / send_error)
Finish(w, response) ==
    /\ ret' = [ret EXCEPT ![w] = response]
    /\ pc' = [pc EXCEPT ![w] = "reply"]
    /\ UNCHANGED <<req, loc>>

\* a WorkerError (or another exception) ends the request in handle_request
ErrorResponse(op, code) == [NoResponse EXCEPT !.code = code, !.op = op]

\* history after worker w's request failed at its current step
HistAfterFailure(w) ==
    [hist EXCEPT !.last = NoLast,
                 !.interrupted = IF pc[w] \in DestroyedPcs
                                 THEN [hist.interrupted EXCEPT ![ReqKey(w)] = TRUE]
                                 ELSE hist.interrupted]

Fail(w, code) ==
    /\ Finish(w, ErrorResponse(req[w].op, code))
    /\ hist' = HistAfterFailure(w)

\* a request arrives at an idle worker; _tabular_validate_source checks that
\* the source is a file
ValidateSource(w, op, f) ==
    /\ pc[w] = "idle"
    /\ req' = [req EXCEPT ![w] = [op |-> op, root |-> f.root, path |-> f.path]]
    /\ IF Exists(src[f])
       THEN /\ pc' = [pc EXCEPT ![w] = "sig"]
            /\ loc' = [loc EXCEPT ![w] =
                          [NoLocals EXCEPT
                              !.stale = hist.changed[f],
                              !.retry = hist.interrupted[KeyOf[f.path]]]]
            /\ hist' = [hist EXCEPT !.touched[w] = FALSE,
                                    !.loads[w] = 0,
                                    !.last = IF hist.last.file = f THEN hist.last ELSE NoLast]
            /\ UNCHANGED ret
       ELSE /\ ret' = [ret EXCEPT ![w] = ErrorResponse(op, "FILE_READ_FAILED")]
            /\ pc' = [pc EXCEPT ![w] = "reply"]
            /\ hist' = [hist EXCEPT !.last = NoLast, !.loads[w] = 0]
            /\ UNCHANGED loc
    /\ UNCHANGED <<src, db, wal, meta>>
    /\ UNCHANGED <<valVars, supVars, toolVars>>

\* _tabular_ensure_cache, line 5085: the signature of the source as it is now
SourceSignature(w) ==
    /\ pc[w] = "sig"
    /\ IF Exists(src[ReqFile(w)])
       THEN /\ loc' = [loc EXCEPT ![w].sig = _tabular_source_signature(src[ReqFile(w)])]
            /\ pc' = [pc EXCEPT ![w] = "load"]
            /\ UNCHANGED <<req, ret, hist>>
       ELSE Fail(w, "FILE_READ_FAILED")
    /\ UNCHANGED <<src, db, wal, meta>>
    /\ UNCHANGED <<valVars, supVars, toolVars>>

\* _tabular_ensure_cache, line 5087
LoadMetadata(w) ==
    /\ pc[w] = "load"
    /\ loc' = [loc EXCEPT ![w].loaded = _tabular_load_metadata(meta[ReqKey(w)])]
    /\ pc' = [pc EXCEPT ![w] = "check"]
    /\ UNCHANGED <<src, db, wal, meta, req, ret, hist>>
    /\ UNCHANGED <<valVars, supVars, toolVars>>

\* _tabular_ensure_cache, line 5088: reuse the entry or go and rebuild it
CheckFresh(w) ==
    /\ pc[w] = "check"
    /\ LET seen == db[ReqKey(w)].state
           fresh == /\ loc[w].loaded.kind = "dict"
                    /\ _tabular_cache_is_fresh(loc[w].loaded, req[w].path, loc[w].sig, seen)
       IN IF fresh
          THEN /\ loc' = [loc EXCEPT ![w].db_seen = seen, ![w].metadata = loc[w].loaded]
               /\ pc' = [pc EXCEPT ![w] = "cached"]
          ELSE /\ loc' = [loc EXCEPT ![w].db_seen = seen]
               /\ pc' = [pc EXCEPT ![w] = "rm_db"]
    /\ UNCHANGED <<src, db, wal, meta, req, ret, hist>>
    /\ UNCHANGED <<valVars, supVars, toolVars>>

\* _tabular_remove_cache_files: os.remove(db_path)
RemoveDb(w) ==
    /\ pc[w] = "rm_db"
    /\ db' = [db EXCEPT ![ReqKey(w)] = DbAbsent]
    /\ pc' = [pc EXCEPT ![w] = "rm_wal"]
    /\ UNCHANGED <<src, wal, meta, req, loc, ret, hist>>
    /\ UNCHANGED <<valVars, supVars, toolVars>>

\* _tabular_remove_cache_files: os.remove(db_path + ".wal")
RemoveWal(w) ==
    /\ pc[w] = "rm_wal"
    /\ wal' = [wal EXCEPT ![ReqKey(w)] = FALSE]
    /\ pc' = [pc EXCEPT ![w] = "rm_meta"]
    /\ UNCHANGED <<src, db, meta, req, loc, ret, hist>>
    /\ UNCHANGED <<valVars, supVars, toolVars>>

\* the removal step left out: the metadata record stays where it is
RemoveMetaSkipped(w) ==
    /\ pc[w] = "rm_meta"
    /\ pc' = [pc EXCEPT ![w] = "open_rw"]
    /\ UNCHANGED <<src, db, wal, meta, req, loc, ret, hist>>
    /\ UNCHANGED <<valVars, supVars, toolVars>>

\* _tabular_remove_cache_files: os.remove(metadata_path)
RemoveMeta(w) ==
    /\ pc[w] = "rm_meta"
    /\ meta' = [meta EXCEPT ![ReqKey(w)] = MetaAbsent]
    /\ pc' = [pc EXCEPT ![w] = "open_rw"]
    /\ UNCHANGED <<src, db, wal, req, loc, ret, hist>>
    /\ UNCHANGED <<valVars, supVars, toolVars>>

\* _tabular_rebuild_cache, lines 5035-5036: the encoding is detected from the
\* source (a missing source is an error) and the cache file is opened for
\* writing, which creates it
OpenForIngest(w) ==
    /\ pc[w] = "open_rw"
    /\ IF Exists(src[ReqFile(w)])
       THEN /\ db' = [db EXCEPT ![ReqKey(w)] =
                         IF @.state = "absent" THEN DbPartial ELSE @]
            /\ pc' = [pc EXCEPT ![w] = "ingest"]
            /\ UNCHANGED <<req, loc, ret, hist>>
       ELSE /\ Fail(w, "FILE_READ_FAILED")
            /\ UNCHANGED db
    /\ UNCHANGED <<src, wal, meta>>
    /\ UNCHANGED <<valVars, supVars, toolVars>>

\* the load that skips the rows it cannot read
IngestLenient(w) ==
    /\ pc[w] = "ingest"
    /\ LET file == src[ReqFile(w)]
       IN IF Exists(file)
          THEN /\ db' = [db EXCEPT ![ReqKey(w)] =
                            [state |-> "partial", content |-> file.content]]
               /\ wal' = [wal EXCEPT ![ReqKey(w)] = TRUE]
               /\ loc' = [loc EXCEPT ![w].content = file.content]
               /\ pc' = [pc EXCEPT ![w] = "close_rw"]
               /\ hist' = [hist EXCEPT !.loads[w] = @ + 1]
               /\ UNCHANGED <<req, ret>>
          ELSE /\ db' = [db EXCEPT ![ReqKey(w)] = DbPartial]
               /\ wal' = [wal EXCEPT ![ReqKey(w)] = FALSE]
               /\ Finish(w, ErrorResponse(req[w].op, "FILE_READ_FAILED"))
               /\ hist' = [HistAfterFailure(w) EXCEPT !.loads[w] = @ + 1,
                                                      !.load_failed[ReqKey(w)] = TRUE]
    /\ UNCHANGED <<src, meta>>
    /\ UNCHANGED <<valVars, supVars, toolVars>>

\* _tabular_rebuild_cache, lines 5038-5056: the table is dropped and loaded
\* from the source as it is now, with ignore_errors=false; a failure closes
\* the connection and raises FILE_READ_FAILED
Ingest(w) ==
    /\ pc[w] = "ingest"
    /\ LET file == src[ReqFile(w)]
       IN IF Exists(file) /\ ~Malformed(file.content)
          THEN /\ db' = [db EXCEPT ![ReqKey(w)] =
                            [state |-> "partial", content |-> file.content]]
               /\ wal' = [wal EXCEPT ![ReqKey(w)] = TRUE]
               /\ loc' = [loc EXCEPT ![w].content = file.content]
               /\ pc' = [pc EXCEPT ![w] = "close_rw"]
               /\ hist' = [hist EXCEPT !.loads[w] = @ + 1]
               /\ UNCHANGED <<req, ret>>
          ELSE /\ db' = [db EXCEPT ![ReqKey(w)] = DbPartial]
               /\ wal' = [wal EXCEPT ![ReqKey(w)] = FALSE]
               /\ Finish(w, ErrorResponse(req[w].op, "FILE_READ_FAILED"))
               /\ hist' = [HistAfterFailure(w) EXCEPT !.loads[w] = @ + 1,
                                                      !.load_failed[ReqKey(w)] = TRUE]
    /\ UNCHANGED <<src, meta>>
    /\ UNCHANGED <<valVars, supVars, toolVars>>

\* _tabular_rebuild_cache, line 5058: conn.close() after a successful load
CloseIngest(w) ==
    /\ pc[w] = "close_rw"
    /\ db' = [db EXCEPT ![ReqKey(w)] =
                 IF @.state = "absent" THEN @ ELSE DbComplete(loc[w].content)]
    /\ wal' = [wal EXCEPT ![ReqKey(w)] = FALSE]
    /\ pc' = [pc EXCEPT ![w] = "write_meta"]
    /\ UNCHANGED <<src, meta, req, loc, ret, hist>>
    /\ UNCHANGED <<valVars, supVars, toolVars>>

\* _tabular_rebuild_cache, lines 5060-5080: the metadata dict is built and
\* _tabular_write_metadata puts it in place (temporary file, os.replace);
\* _tabular_ensure_cache returns it
WriteMetadata(w) ==
    /\ pc[w] = "write_meta"
    /\ LET metadata == RebuildMetadata(ReqFile(w), loc[w].sig, loc[w].content)
       IN /\ meta' = [meta EXCEPT ![ReqKey(w)] = metadata]
          /\ loc' = [loc EXCEPT ![w].metadata = metadata, ![w].rebuilt = TRUE]
    /\ pc' = [pc EXCEPT ![w] = "cached"]
    /\ hist' = [hist EXCEPT !.changed[ReqFile(w)] = FALSE,
                            !.interrupted[ReqKey(w)] = FALSE,
                            !.exported[ReqKey(w)] = NoFileId,
                            !.load_failed[ReqKey(w)] = FALSE]
    /\ UNCHANGED <<src, db, wal, req, ret>>
    /\ UNCHANGED <<valVars, supVars, toolVars>>

\* history after worker w's request was answered
HistAfterAnswer(w, ok) ==
    [hist EXCEPT !.last = IF ok /\ ~hist.touched[w]
                          THEN [file |-> ReqFile(w), metadata |-> loc[w].metadata]
                          ELSE NoLast]

\* tabular_get_map: answered from the metadata _tabular_ensure_cache returned
GetMap(w) ==
    /\ pc[w] = "cached"
    /\ req[w].op = "get_map"
    /\ Finish(w, [NoResponse EXCEPT
                     !.ok = TRUE,
                     !.code = "",
                     !.op = "get_map",
                     !.data = loc[w].metadata.row_count,
                     !.current = src[ReqFile(w)].content])
    /\ hist' = HistAfterAnswer(w, TRUE)
    /\ UNCHANGED <<src, db, wal, meta>>
    /\ UNCHANGED <<valVars, supVars, toolVars>>

\* tabular_read_rows: the cache file is opened read-only and the rows are
\* read from it; a cache file that is missing or holds no whole table makes
\* the read fail
ReadRows(w) ==
    /\ pc[w] = "cached"
    /\ req[w].op = "read_rows"
    /\ LET seen == db[ReqKey(w)]
           ok == seen.state = "complete"
       IN /\ Finish(w, [NoResponse EXCEPT
                           !.ok = ok,
                           !.code = IF ok THEN "" ELSE "FILE_READ_FAILED",
                           !.op = "read_rows",
                           !.data = IF ok THEN seen.content ELSE 0,
                           !.seen = seen.state,
                           !.current = src[ReqFile(w)].content])
          /\ hist' = HistAfterAnswer(w, ok)
    /\ UNCHANGED <<src, db, wal, meta>>
    /\ UNCHANGED <<valVars, supVars, toolVars>>

\* main, lines 6281-6284: the response is out and the loop turns to the next
\* request line
NextLine(w) ==
    /\ pc[w] = "reply"
    /\ pc' = [pc EXCEPT ![w] = "idle"]
    /\ req' = [req EXCEPT ![w] = NoRequest]
    /\ loc' = [loc EXCEPT ![w] = NoLocals]
    /\ ret' = [ret EXCEPT ![w] = NoResponse]
    /\ UNCHANGED <<src, db, wal, meta, hist>>
    /\ UNCHANGED <<valVars, supVars, toolVars>>

\* the worker process is killed in the middle of a request and started
\* again: its memory is gone, the files stay as they are
Crash(w) ==
    /\ pc[w] \notin {"idle", "reply"}
    /\ pc' = [pc EXCEPT ![w] = "idle"]
    /\ req' = [req EXCEPT ![w] = NoRequest]
    /\ loc' = [loc EXCEPT ![w] = NoLocals]
    /\ hist' = HistAfterFailure(w)
    /\ UNCHANGED <<src, db, wal, meta, ret>>
    /\ UNCHANGED <<valVars, supVars, toolVars>>

(***************************************************************************)
(* The owner of the workbench.                                              *)
(***************************************************************************)
\* history after source file f was rewritten or removed
HistAfterSourceChange(f, content_changed) ==
    LET record == meta[KeyOf[f.path]]
        cached == record.kind = "dict" /\ record.path = f.path
    IN [hist EXCEPT
           !.touched = [w \in Workers |->
                           IF pc[w] \notin {"idle", "reply"} /\ ReqFile(w) = f
                           THEN TRUE ELSE @[w]],
           !.last = IF @.file = f THEN NoLast ELSE @,
           !.changed = IF content_changed /\ cached THEN [@ EXCEPT ![f] = TRUE] ELSE @]

\* source file f is rewritten with content c, its modification time set to m
WriteSource(f, c, m) ==
    /\ src[f] # [content |-> c, mtime |-> m]
    /\ src' = [src EXCEPT ![f] = [content |-> c, mtime |-> m]]
    /\ hist' = HistAfterSourceChange(f, src[f].content # c)
    /\ UNCHANGED <<db, wal, meta, pc, req, loc, ret>>
    /\ UNCHANGED <<valVars, supVars, toolVars>>

\* source file f is saved with content c: its modification time moves on
SaveSource(f, c) ==
    /\ Exists(src[f])
    /\ src[f].mtime < MaxMtime
    /\ WriteSource(f, c, src[f].mtime + 1)

\* source file f is removed
DeleteSource(f) ==
    /\ Exists(src[f])
    /\ src' = [src EXCEPT ![f] = NoFile]
    /\ hist' = HistAfterSourceChange(f, TRUE)
    /\ UNCHANGED <<db, wal, meta, pc, req, loc, ret>>
    /\ UNCHANGED <<valVars, supVars, toolVars>>

(***************************************************************************)
(* The cancellation supervisor, _tabular_run_with_timeout.                  *)
(*                                                                          *)
(* Two threads: the caller's thread, which starts the timer, runs the       *)
(* operation, handles its exception and runs the finally block; and the     *)
(* thread of threading.Timer, which after the interval calls _interrupt     *)
(* unless the timer was cancelled first.  The threads share the `done`      *)
(* event, the `timed_out` flag and the connection.                          *)
(***************************************************************************)
\* the supervised operations and the error_code each call site passes
SupervisedOps == {"query_window", "query_count", "export_csv", "export_xlsx", "rows_for_export"}

\* error_code of the call sites: lines 5703-5707, 5714, 5772, 5796, 5824
ErrorCodeOf(op) ==
    IF op \in {"export_csv", "export_xlsx"} THEN "FILE_WRITE_FAILED" ELSE "FILE_READ_FAILED"

\* values of TABULAR_QUERY_TIMEOUT_MS a worker is configured with (init_config
\* clamps it to 100..600000, so the timer is always armed)
TimeoutsMs == {100, 5000}

NoOutcome == [kind |-> None, code |-> "", message |-> "", ms |-> 0]

\* operation() returned its value
Returned == [kind |-> "value", code |-> "", message |-> "", ms |-> 0]

\* the exception the operation raised, as the engine raised it
OriginalError(exc) == [kind |-> "error", code |-> "", message |-> exc, ms |-> 0]

\* WorkerError(error_code, f"query timed out after {timeout}ms")
TimeoutError(error_code, timeout) ==
    [kind |-> "error", code |-> error_code, message |-> "query timed out after", ms |-> timeout]

\* no supervised call in progress
SupIdle ==
          [op |-> None, error_code |-> "", timeout |-> 0, has_interrupt |-> FALSE,
           mpc |-> "idle", timer |-> "none", tpc |-> "none",
           done |-> FALSE, timed_out |-> FALSE, interrupt_pending |-> FALSE,
           exc |-> None, pending |-> NoOutcome, outcome |-> NoOutcome, log |-> <<>>,
           prev |-> None, stale |-> FALSE]

SupAtRest == sup = SupIdle

\* a tool calls _tabular_run_with_timeout(conn, operation, error_code=...);
\* lines 4892-4897: timeout > 0, the event and the flag are created
\* tabular_query calls it a second time, for the unwindowed count, on the
\* connection of the window read that returned (lines 5709-5714); every other
\* call is the first on a connection just opened, which no earlier timer
\* thread holds
CallSupervised(op, timeout, has_interrupt) ==
    /\ sup.mpc = "idle"
    /\ op = "query_count" =>
          /\ sup.prev = "query_window"
          /\ has_interrupt = sup.has_interrupt
          /\ timeout = sup.timeout
    /\ sup' = [sup EXCEPT !.op = op, !.error_code = ErrorCodeOf(op),
                          !.timeout = timeout, !.has_interrupt = has_interrupt,
                          !.mpc = "start_timer",
                          !.stale = IF op = "query_count" THEN @ ELSE FALSE]
    /\ UNCHANGED <<valVars, cacheVars, toolVars>>

\* lines 4909-4911: timer.start()
StartTimer ==
    /\ sup.mpc = "start_timer"
    /\ sup' = [sup EXCEPT !.timer = "waiting", !.mpc = "begin",
                          !.log = Append(@, "start_timer")]
    /\ UNCHANGED <<valVars, cacheVars, toolVars>>

\* line 4913: operation() is entered
BeginOperation ==
    /\ sup.mpc = "begin"
    /\ sup' = [sup EXCEPT !.mpc = "op", !.log = Append(@, "op_begin")]
    /\ UNCHANGED <<valVars, cacheVars, toolVars>>

\* line 4913: operation() returns; control goes to the finally block
OperationReturns ==
    /\ sup.mpc = "op"
    /\ sup' = [sup EXCEPT !.mpc = "set_done", !.pending = Returned,
                          !.log = Append(@, "op_return")]
    /\ UNCHANGED <<valVars, cacheVars, toolVars>>

\* line 4913: operation() raises: an error of the statement itself, or the
\* engine's interruption error once interrupt() was called on the connection
OperationRaises(exc) ==
    /\ sup.mpc = "op"
    /\ exc = "interrupted" => sup.interrupt_pending
    /\ sup' = [sup EXCEPT !.mpc = "except", !.exc = exc,
                          !.log = Append(@, "op_raise")]
    /\ UNCHANGED <<valVars, cacheVars, toolVars>>

\* the handler that reports a timeout whenever the timer has fired
HandleExceptionByTimer ==
    /\ sup.mpc = "except"
    /\ sup' = [sup EXCEPT
                  !.pending = IF sup.timer = "fired"
                              THEN TimeoutError(sup.error_code, sup.timeout)
                              ELSE OriginalError(sup.exc),
                  !.mpc = "set_done",
                  !.log = Append(@, "except")]
    /\ UNCHANGED <<valVars, cacheVars, toolVars>>

\* lines 4914-4917: except Exception: a timeout error if the flag is set,
\* the original exception otherwise
HandleException ==
    /\ sup.mpc = "except"
    /\ sup' = [sup EXCEPT
                  !.pending = IF sup.timed_out
                              THEN TimeoutError(sup.error_code, sup.timeout)
                              ELSE OriginalError(sup.exc),
                  !.mpc = "set_done",
                  !.log = Append(@, "except")]
    /\ UNCHANGED <<valVars, cacheVars, toolVars>>

\* lines 4918-4919: finally: done.set()
SetDone ==
    /\ sup.mpc = "set_done"
    /\ sup' = [sup EXCEPT !.done = TRUE, !.mpc = "cancel",
                          !.log = Append(@, "set_done")]
    /\ UNCHANGED <<valVars, cacheVars, toolVars>>

\* the finally block that leaves the timer armed
CancelTimerSkipped ==
    /\ sup.mpc = "cancel"
    /\ sup' = [sup EXCEPT !.mpc = "out", !.outcome = sup.pending]
    /\ UNCHANGED <<valVars, cacheVars, toolVars>>

\* line 4920: finally: timer.cancel(), then the value or the exception
\* reaches the caller
CancelTimer ==
    /\ sup.mpc = "cancel"
    /\ sup' = [sup EXCEPT !.timer = IF @ = "waiting" THEN "cancelled" ELSE @,
                          !.mpc = "out",
                          !.outcome = sup.pending,
                          !.log = Append(@, "cancel")]
    /\ UNCHANGED <<valVars, cacheVars, toolVars>>

\* threading.Timer.run: the interval has passed and the timer was not
\* cancelled: _interrupt is called
TimerFires ==
    /\ sup.timer = "waiting"
    /\ sup' = [sup EXCEPT !.timer = "fired", !.tpc = "check_done",
                          !.log = Append(@, "fire")]
    /\ UNCHANGED <<valVars, cacheVars, toolVars>>

\* lines 4899-4901: if done.is_set(): return
CheckDone ==
    /\ sup.tpc = "check_done"
    /\ sup' = IF sup.done
              THEN [sup EXCEPT !.tpc = "end", !.log = Append(@, "saw_done")]
              ELSE [sup EXCEPT !.tpc = "set_flag"]
    /\ UNCHANGED <<valVars, cacheVars, toolVars>>

\* line 4902: timed_out["value"] = True
SetTimedOut ==
    /\ sup.tpc = "set_flag"
    /\ sup' = [sup EXCEPT !.timed_out = TRUE, !.tpc = "interrupt",
                          !.log = Append(@, "set_flag")]
    /\ UNCHANGED <<valVars, cacheVars, toolVars>>

\* lines 4903-4908: conn.interrupt() if the connection has one; a statement
\* that is running on the connection will raise
Interrupt ==
    /\ sup.tpc = "interrupt"
    /\ sup' = IF sup.has_interrupt
              THEN [sup EXCEPT !.interrupt_pending = (sup.mpc = "op"),
                               !.tpc = "end",
                               !.log = Append(@, "interrupt")]
              ELSE [sup EXCEPT !.tpc = "end"]
    /\ UNCHANGED <<valVars, cacheVars, toolVars>>

\* a timer thread of an earlier call on this connection, which had found
\* done unset before that call returned, goes on (lines 4902-4908): it sets
\* the flag of its own call and calls conn.interrupt(); a statement running
\* on the connection will raise
StaleInterrupt ==
    /\ sup.stale
    /\ sup' = [sup EXCEPT !.stale = FALSE,
                          !.interrupt_pending = @ \/ (sup.has_interrupt /\ sup.mpc = "op"),
                          !.log = IF sup.has_interrupt /\ sup.mpc # "idle"
                                  THEN Append(@, "stale_interrupt") ELSE @]
    /\ UNCHANGED <<valVars, cacheVars, toolVars>>

\* the tool goes on with the value or the exception it got.  Nothing waits
\* for the timer thread: one that has passed the test of done (line 4900)
\* is still to set its flag and to interrupt the connection
LeaveSupervised ==
    /\ sup.mpc = "out"
    /\ sup' = [SupIdle EXCEPT
                  !.prev = IF sup.outcome = Returned THEN sup.op ELSE None,
                  !.has_interrupt = sup.has_interrupt,
                  !.timeout = sup.timeout,
                  !.stale = sup.stale \/ sup.tpc \in {"set_flag", "interrupt"}]
    /\ UNCHANGED <<valVars, cacheVars, toolVars>>

\* what the request answers when the supervised call raised: a WorkerError
\* passes the tool's handlers unchanged, any other exception is wrapped
\* (lines 5715-5718, 5967-5970, 6022-6025)
ToolError(op, outcome) ==
    IF outcome.code # ""
    THEN outcome
    ELSE [outcome EXCEPT !.code = ErrorCodeOf(op),
                         !.message = IF op \in {"export_csv", "export_xlsx"}
                                     THEN "export failed" ELSE "query failed"]

(***************************************************************************)
(* Opening a connection: _tabular_open_connection connects and then         *)
(* _tabular_apply_connection_guardrails sets three limits, each with        *)
(* _tabular_try_set_statement on its candidate statements.  Which           *)
(* statements the engine accepts, and whether the connection object has an  *)
(* interrupt method, depends on the engine's version.                       *)
(***************************************************************************)
Limits == <<"memory", "threads", "timeout">>

\* the candidate statements of each limit, in the order of the lists
Candidates ==
    [memory  |-> <<"SET memory_limit", "PRAGMA memory_limit">>,
     threads |-> <<"SET threads", "PRAGMA threads">>,
     timeout |-> <<"SET statement_timeout", "PRAGMA statement_timeout",
                   "SET max_execution_time", "PRAGMA max_execution_time">>]

Statements == UNION {{Candidates[l][i] : i \in 1..Len(Candidates[l])} : l \in DOMAIN Candidates}

NoConnection ==
    [gpc |-> "closed", accepts |-> {}, has_interrupt |-> FALSE,
     limit |-> 0, idx |-> 0, executed |-> <<>>,
     configured |-> [memory |-> FALSE, threads |-> FALSE, timeout |-> FALSE],
     logged |-> FALSE]

\* lines 4831-4836: duckdb.connect succeeded; the guardrails start with the
\* first candidate of the first limit
Connect(accepts, has_interrupt) ==
    /\ gr.gpc = "closed"
    /\ gr' = [NoConnection EXCEPT !.gpc = "set", !.accepts = accepts,
                                  !.has_interrupt = has_interrupt,
                                  !.limit = 1, !.idx = 1]
    /\ UNCHANGED <<valVars, supVars, cacheVars, xreq, art, run, xh>>

\* after a limit: the next limit, or the test of the timeout configuration
AfterLimit(g) ==
    IF g.limit < Len(Limits)
    THEN [g EXCEPT !.limit = @ + 1, !.idx = 1]
    ELSE [g EXCEPT !.gpc = "report", !.limit = 0, !.idx = 0]

\* lines 4840-4847, one turn of the loop of _tabular_try_set_statement:
\* conn.execute(statement); return True when it succeeds, the next
\* candidate when it raises, False when the list is exhausted
TrySetStatement ==
    /\ gr.gpc = "set"
    /\ LET limit == Limits[gr.limit]
           statement == Candidates[limit][gr.idx]
           g == [gr EXCEPT !.executed = Append(@, statement)]
       IN gr' = IF statement \in gr.accepts
                THEN AfterLimit([g EXCEPT !.configured[limit] = TRUE])
                ELSE IF gr.idx < Len(Candidates[limit])
                     THEN [g EXCEPT !.idx = @ + 1]
                     ELSE AfterLimit(g)
    /\ UNCHANGED <<valVars, supVars, cacheVars, xreq, art, run, xh>>

\* lines 4878-4882: log_error("tabular.timeout_guardrail_unavailable") when
\* no timeout statement was accepted and the connection has no interrupt;
\* then _tabular_open_connection returns the connection
ReportGuardrails ==
    /\ gr.gpc = "report"
    /\ gr' = [gr EXCEPT !.gpc = "open",
                        !.logged = ~gr.configured.timeout /\ ~gr.has_interrupt]
    /\ UNCHANGED <<valVars, supVars, cacheVars, xreq, art, run, xh>>

\* the tool is done with the connection
CloseConnection ==
    /\ gr.gpc = "open"
    /\ gr' = NoConnection
    /\ UNCHANGED <<valVars, supVars, cacheVars, xreq, art, run, xh>>

(***************************************************************************)
(* Paths of a request: validate_root, validate_write_root,                  *)
(* validate_rel_path, _resolve_rel_path, _tabular_validate_source.          *)
(* Roots and paths are the texts the caller sent, one character per item.   *)
(***************************************************************************)
StartsWith(s, pre) == Len(s) >= Len(pre) /\ SubSeq(s, 1, Len(pre)) = pre

EndsWithSeq(s, suf) == Len(s) >= Len(suf) /\ SubSeq(s, Len(s) - Len(suf) + 1, Len(s)) = suf

\* Python's `sub in s`
HasSub(s, sub) == \E i \in 1..(Len(s) - Len(sub) + 1) : SubSeq(s, i, i + Len(sub) - 1) = sub

PathOk == [ok |-> TRUE, code |-> ""]
PathError(code) == [ok |-> FALSE, code |-> code]

\* os.path.isabs (POSIX)
IsAbs(path) == StartsWith(path, <<"/">>)

\* validate_root, lines 268-277
validate_root(root) ==
    IF root = <<>> THEN PathError("SANDBOX_VIOLATION")
    ELSE IF IsAbs(root) THEN PathError("SANDBOX_VIOLATION")
    ELSE IF HasSub(root, <<".", ".">>) THEN PathError("SANDBOX_VIOLATION")
    ELSE IF HasSub(root, <<"/">>) \/ HasSub(root, <<"\\">>) THEN PathError("SANDBOX_VIOLATION")
    ELSE PathOk

\* validate_write_root, lines 280-286
validate_write_root(root) ==
    IF ~validate_root(root).ok THEN validate_root(root)
    ELSE IF root = <<"d","r","a","f","t">> THEN PathOk
    ELSE IF StartsWith(root, <<"d","r","a","f","t",".">>)
            /\ EndsWithSeq(root, <<".","s","t","a","g","i","n","g">>) THEN PathOk
    ELSE PathError("SANDBOX_VIOLATION")

\* validate_rel_path, lines 289-297
validate_rel_path(path) ==
    IF path = <<>> THEN PathError("VALIDATION_FAILED")
    ELSE IF IsAbs(path) THEN PathError("SANDBOX_VIOLATION")
    ELSE IF HasSub(path, <<".", ".">>) THEN PathError("SANDBOX_VIOLATION")
    ELSE IF HasSub(path, <<"/">>) \/ HasSub(path, <<"\\">>) THEN PathError("SANDBOX_VIOLATION")
    ELSE PathOk

\* _resolve_rel_path, lines 309-315, for a path validate_rel_path let
\* through (no separator, no ".."): only "." resolves to the base itself
_resolve_rel_path(root, rel_path) ==
    IF rel_path = <<".">> THEN PathError("SANDBOX_VIOLATION") ELSE PathOk

\* (params.get("root") or "draft").strip()
RootParam(raw) == IF raw = <<>> THEN <<"d","r","a","f","t">> ELSE Strip(raw)

NoSource == [ok |-> FALSE, code |-> "", root |-> None, path |-> <<>>]

\* the source dict _tabular_validate_source returns
Source(root, rel_path) == [ok |-> TRUE, code |-> "", root |-> Str(root), path |-> rel_path]

\* os.path.isfile(source_path)
IsFile(root, rel_path) ==
    LET f == [root |-> Str(root), path |-> rel_path]
    IN f \in Files /\ Exists(src[f])

\* _tabular_validate_source, lines 5012-5028
_tabular_validate_source(params) ==
    LET root == RootParam(params.root)
        rel_path == Strip(params.path)
    IN IF ~validate_root(root).ok
       THEN [NoSource EXCEPT !.code = validate_root(root).code]
       ELSE IF ~validate_rel_path(rel_path).ok
       THEN [NoSource EXCEPT !.code = validate_rel_path(rel_path).code]
       ELSE IF ~EndsWithSeq(Lower(rel_path), <<".","c","s","v">>)
       THEN [NoSource EXCEPT !.code = "VALIDATION_FAILED"]
       ELSE IF ~_resolve_rel_path(root, rel_path).ok
       THEN [NoSource EXCEPT !.code = _resolve_rel_path(root, rel_path).code]
       ELSE IF ~IsFile(root, rel_path)
       THEN [NoSource EXCEPT !.code = "FILE_READ_FAILED"]
       ELSE Source(root, rel_path)

(***************************************************************************)
(* The tools that run caller queries: tabular_query, tabular_export and     *)
(* tabular_update_from_export.  A tool request is served by worker 1: it    *)
(* goes through _tabular_ensure_cache (the steps above), then validates     *)
(* the query, opens the cache file and runs its statements on it.           *)
(***************************************************************************)
RootDefault == <<>>
RootStaging == <<"d","r","a","f","t",".","s",".","s","t","a","g","i","n","g">>
RootPublished == <<"p","u","b","l","i","s","h","e","d">>

\* SELECT * FROM data
QAllRows ==
    QStarFrom \o <<[k |-> "ws", t |-> <<" ">>], [k |-> "word", t |-> <<"d","a","t","a">>]>>

\* SELECT * FROM data LIMIT 0
QNoRows ==
    QAllRows \o <<[k |-> "ws", t |-> <<" ">>],
                  [k |-> "word", t |-> <<"L","I","M","I","T">>],
                  [k |-> "ws", t |-> <<" ">>],
                  [k |-> "word", t |-> <<"0">>]>>

\* SELECT * FROM data --;  (a line comment after the statement)
QAllRowsNote == QAllRows \o <<ItSpace, ItLineComment>>

\* WITH x AS (SELECT 1) INSERT INTO data SELECT * FROM x
QCteInsert == QCteHead \o <<ItSpace>> \o QInsertTail

\* no query parameter (export and update_from_export then take all rows)
QNone == <<>>

\* a query parameter of whitespace only
QBlank == <<ItSpace>>

\* ORDER BY rowid
QOrderByRowid ==
    <<[k |-> "word", t |-> <<"O","R","D","E","R">>],
      [k |-> "ws", t |-> <<" ">>],
      [k |-> "word", t |-> <<"B","Y">>],
      [k |-> "ws", t |-> <<" ">>],
      [k |-> "word", t |-> <<"r","o","w","i","d">>]>>

\* SELECT * FROM data ORDER BY rowid
QOrdered == QAllRows \o <<ItSpace>> \o QOrderByRowid

\* SELECT * FROM data /*ORDER BY rowid*/
QOrderNote ==
    QAllRows \o <<ItSpace,
                  [k |-> "bc", t |-> <<"/","*">> \o Text(QOrderByRowid) \o <<"*","/">>]>>

ToolQueries ==
    {QAllRows, QNoRows, QAllRowsNote, QCteInsert, QDrop, QBlank, QOrdered, QOrderNote}

\* _tabular_validate_query on each query a tool request may carry
ValidatedQuery == [q \in ToolQueries |-> _tabular_validate_query(Text(q))]

\* \s+ matches s[p..q-1] for some q, and by\b matches at q
RECURSIVE ByTail(_, _)
ByTail(s, p) ==
    /\ p <= Len(s)
    /\ IsSpace(s[p])
    /\ \/ LitAt(s, p + 1, <<"b","y">>) /\ WordBoundary(s, p + 3)
       \/ ByTail(s, p + 1)

\* re.search(r"\border\s+by\b", lowered) is not None
HasOrderBy(lowered) ==
    \E p \in 1..Len(lowered) :
        /\ WordBoundary(lowered, p)
        /\ LitAt(lowered, p, <<"o","r","d","e","r">>)
        /\ ByTail(lowered, p + 5)

\* the search run on the query as written instead of its scanning copy
OrderByMissingInText(query) == ~HasOrderBy(Lower(query))

\* lines 5805-5806: no order by in the lowered scanning copy of the query
OrderByMissing(query) == ~HasOrderBy(Lower(StripSql(query)))

NoOrderByWarning == "query_has_no_order_by; output order may vary"

\* _tabular_export_query_and_warnings, lines 5799-5808: the statement an
\* export runs and its warnings; query is <<>> for no query parameter
_tabular_export_query_and_warnings(query) ==
    IF Strip(Text(query)) = <<>>
    THEN [safe |-> Accepted(Text(QOrdered)), warnings |-> {}]
    ELSE LET export_query == ValidatedQuery[query]
         IN [safe |-> export_query,
             warnings |-> IF export_query.ok /\ OrderByMissing(Text(query))
                          THEN {NoOrderByWarning} ELSE {}]

ExportQuery == [q \in ToolQueries \cup {QNone} |-> _tabular_export_query_and_warnings(q)]

\* the statement changes the table it names
IsModifying(q) == q \in {QCteInsert, QDrop}

\* the text ends inside a line comment: what is appended to it on the same
\* line is part of the comment
EndsInLineComment(q) ==
    LET core == DropTrailingSpace(q)
    IN core # <<>> /\ core[Len(core)].k = "lc"

\* rows the engine returns for the statement on a table loaded from content c
ResultRows(q, c) ==
    IF q = QNoRows THEN 0 ELSE RowsOf(c)

\* greatest window and offset a query request asks for
MaxWindow == 2
MaxOffset == 3
\* tool requests a worker serves in one run
MaxRequests == 2

Min(a, b) == IF a < b THEN a ELSE b
Max(a, b) == IF a > b THEN a ELSE b

ToolOps == {"query", "read_rows", "describe", "get_stats", "export", "update_from_export"}

\* a number parameter as the caller sent it, counted in halves (3 is 1.5),
\* and the parameter left out
Halves == 2
NoNumber == -1000

\* int(value): the fraction is cut off towards zero
IntOf(value) == IF value >= 0 THEN value \div Halves ELSE -((-value) \div Halves)

TABULAR_CHUNK_ROWS == 100

ParseError == [ok |-> FALSE, value |-> 0]
Parsed(n) == [ok |-> TRUE, value |-> n]

\* lines 5206-5215
_tabular_parse_positive_int(value, default) ==
    IF value = NoNumber THEN Parsed(default)
    ELSE IF IntOf(value) <= 0 THEN ParseError
    ELSE Parsed(IntOf(value))

\* lines 5218-5227
_tabular_parse_non_negative_int(value, default) ==
    IF value = NoNumber THEN Parsed(default)
    ELSE IF IntOf(value) < 0 THEN ParseError
    ELSE Parsed(IntOf(value))

\* the methods registered with mode "write" (METHODS, lines 6162-6163)
WriteMode(op) == op \in {"export", "update_from_export"}

NoToolRequest ==
    [op |-> None, root |-> <<>>, path |-> <<>>, query |-> QNone,
     window_rows |-> NoNumber, window_offset |-> NoNumber,
     row_start |-> NoNumber, row_count |-> NoNumber,
     target_root |-> <<>>, target_path |-> <<>>, format |-> "",
     sheet |-> <<>>, mode |-> <<>>, clear_target_range |-> FALSE,
     create_workbook_if_missing |-> TRUE, create_sheet_if_missing |-> TRUE]

\* a query for a window of `rows` rows at `offset`, both whole numbers
QueryRequest(root, path, q, rows, offset) ==
    [NoToolRequest EXCEPT !.op = "query", !.root = root, !.path = path, !.query = q,
                          !.window_rows = Halves * rows, !.window_offset = Halves * offset]

\* a query of all rows with the window parameters as sent
WindowRequest(rows, offset) ==
    [NoToolRequest EXCEPT !.op = "query", !.path = PathLowerA, !.query = QAllRows,
                          !.window_rows = rows, !.window_offset = offset]

\* read_rows with its parameters as sent
ReadRowsRequest(row_start, row_count) ==
    [NoToolRequest EXCEPT !.op = "read_rows", !.path = PathLowerA,
                          !.row_start = row_start, !.row_count = row_count]

\* a connection to the cache file: closed, read-only ("ro") or writable ("rw")
NoRun ==
    [conn |-> "closed", safe |-> NotValidated, rows |-> 0, total |-> 0,
     timed_out |-> FALSE, failed |-> "", target |-> NoFileId, sheets |-> {},
     warnings |-> {}, window |-> 0, offset |-> 0, row_count |-> 0, has_more |-> FALSE]

\* the workbook at the target path and the temporary file beside it: their
\* content (0 for no file) and the names of the workbook's sheets
NoArtefacts == [workbook |-> 0, tmp |-> 0, sheets |-> {}]

\* history of the tool requests: the cache files and the workbook when the
\* request arrived,
\* the target of the last export or update with its content before and the
\* content a complete write leaves, the connections the caller's statements
\* ran on, and the requests served so far
NoToolHistory ==
    [cache |-> <<>>, art |-> NoArtefacts, tool |-> None, file |-> NoFileId,
     before |-> 0, expected |-> 0, executed |-> {}, served |-> 0]

ToolsAtRest ==
    /\ xreq = NoToolRequest
    /\ art = NoArtefacts
    /\ run = NoRun
    /\ xh = NoToolHistory
    /\ gr = NoConnection

\* handle_request and the first call of every tool, _tabular_ensure_cache ->
\* _tabular_validate_source: a write method needs a write root, then the
\* source is validated; nothing on disk is touched
ReceiveTool(w, p) ==
    /\ pc[w] = "idle"
    /\ xh.served < MaxRequests
    /\ xreq' = p
    /\ run' = NoRun
    /\ xh' = [xh EXCEPT !.cache = <<db, wal, meta>>, !.art = art, !.executed = {},
                        !.served = @ + 1]
    /\ LET write_root == IF WriteMode(p.op) THEN validate_write_root(RootParam(p.root)) ELSE PathOk
           source == _tabular_validate_source(p)
       IN IF write_root.ok /\ source.ok
          THEN /\ req' = [req EXCEPT ![w] = [op |-> p.op, root |-> source.root, path |-> source.path]]
               /\ pc' = [pc EXCEPT ![w] = "sig"]
               /\ loc' = [loc EXCEPT ![w] = NoLocals]
               /\ hist' = [hist EXCEPT !.touched[w] = FALSE, !.last = NoLast]
               /\ UNCHANGED ret
          ELSE /\ req' = [req EXCEPT ![w] = [NoRequest EXCEPT !.op = p.op]]
               /\ ret' = [ret EXCEPT ![w] =
                             ErrorResponse(p.op, IF write_root.ok THEN source.code ELSE write_root.code)]
               /\ pc' = [pc EXCEPT ![w] = "reply"]
               /\ hist' = [hist EXCEPT !.last = NoLast]
               /\ UNCHANGED loc
    /\ UNCHANGED <<src, db, wal, meta, art>>
    /\ UNCHANGED <<valVars, supVars, gr>>

\* the tool's request ends with a WorkerError
ToolFail(w, code) ==
    /\ ret' = [ret EXCEPT ![w] = ErrorResponse(req[w].op, code)]
    /\ pc' = [pc EXCEPT ![w] = "reply"]
    /\ UNCHANGED <<req, loc, hist>>

\* tabular_query lines 5667-5669, _tabular_export_query_and_warnings lines
\* 5799-5808: the caller's query is validated, then the window of a query is
\* parsed; export and update_from_export take all rows in row order when no
\* query is given
ValidateToolQuery(w) ==
    /\ \/ pc[w] = "cached" /\ req[w].op = "query"
       \/ pc[w] = "t_query"
    /\ LET export == ExportQuery[xreq.query]
           safe == IF req[w].op = "query" THEN ValidatedQuery[xreq.query] ELSE export.safe
           warnings == IF req[w].op = "query" THEN {} ELSE export.warnings
           window_rows == IF req[w].op = "query"
                          THEN _tabular_parse_positive_int(xreq.window_rows, TABULAR_CHUNK_ROWS)
                          ELSE Parsed(0)
           window_offset == IF req[w].op = "query"
                            THEN _tabular_parse_non_negative_int(xreq.window_offset, 0)
                            ELSE Parsed(0)
       IN IF safe.ok /\ ~(window_rows.ok /\ window_offset.ok)
          THEN /\ ToolFail(w, "VALIDATION_FAILED")
               /\ UNCHANGED run
          ELSE IF safe.ok
          THEN /\ run' = [run EXCEPT !.safe = safe, !.warnings = warnings,
                                     !.window = window_rows.value,
                                     !.offset = window_offset.value]
               /\ pc' = [pc EXCEPT ![w] = "t_open"]
               /\ UNCHANGED <<req, loc, ret, hist>>
          ELSE /\ ToolFail(w, safe.code)
               /\ UNCHANGED run
    /\ UNCHANGED <<src, db, wal, meta, xreq, art, xh>>
    /\ UNCHANGED <<valVars, supVars, gr>>

\* the tool opens the cache file with a writable connection
OpenWritable(w) ==
    /\ pc[w] = "t_open"
    /\ IF db[ReqKey(w)].state = "complete"
       THEN /\ run' = [run EXCEPT !.conn = "rw"]
            /\ pc' = [pc EXCEPT ![w] = "t_exec"]
            /\ UNCHANGED <<req, loc, ret, hist>>
       ELSE /\ ToolFail(w, IF WriteMode(req[w].op) THEN "FILE_WRITE_FAILED" ELSE "FILE_READ_FAILED")
            /\ UNCHANGED run
    /\ UNCHANGED <<src, db, wal, meta, xreq, art, xh>>
    /\ UNCHANGED <<valVars, supVars, gr>>

\* lines 5672, 5961, 6019: _tabular_open_connection(db_path, read_only=True);
\* a cache file that is missing or not whole makes connect raise, which
\* handle_request answers by the mode of the method
OpenReadOnly(w) ==
    /\ pc[w] = "t_open"
    /\ IF db[ReqKey(w)].state = "complete"
       THEN /\ run' = [run EXCEPT !.conn = "ro"]
            /\ pc' = [pc EXCEPT ![w] = "t_exec"]
            /\ UNCHANGED <<req, loc, ret, hist>>
       ELSE /\ ToolFail(w, IF WriteMode(req[w].op) THEN "FILE_WRITE_FAILED" ELSE "FILE_READ_FAILED")
            /\ UNCHANGED run
    /\ UNCHANGED <<src, db, wal, meta, xreq, art, xh>>
    /\ UNCHANGED <<valVars, supVars, gr>>

\* the engine refuses the statement: the text wrapped around the caller's
\* query ("... FROM (<query>) AS q ...") is cut off by a line comment the
\* query ends in, a modifying statement stands where a subquery must, or a
\* modifying statement is run on a read-only connection
EngineRefuses(q, wrapped, mode) ==
    \/ wrapped /\ EndsInLineComment(q)
    \/ wrapped /\ IsModifying(q)
    \/ IsModifying(q) /\ mode = "ro"

\* the table after the engine ran statement q on a connection in `mode`
TableAfter(table, q, wrapped, mode) ==
    IF IsModifying(q) /\ ~EngineRefuses(q, wrapped, mode)
    THEN [table EXCEPT !.content = @ + 1000]
    ELSE table

\* tabular_query lines 5675-5707: the window statement
\* SELECT q.*, COUNT(*) OVER() ... FROM (<query>) AS q LIMIT ? OFFSET ?
\* under the supervisor; every returned row carries the total
ExecuteWindow(w, timeout) ==
    /\ pc[w] = "t_exec"
    /\ req[w].op = "query"
    /\ LET q == xreq.query
           n == ResultRows(q, db[ReqKey(w)].content)
           got == Min(run.window, Max(0, n - run.offset))
       IN /\ xh' = [xh EXCEPT !.executed = @ \cup {run.conn}]
          /\ db' = [db EXCEPT ![ReqKey(w)] = TableAfter(@, q, TRUE, run.conn)]
          /\ IF timeout \/ EngineRefuses(q, TRUE, run.conn)
             THEN /\ run' = [run EXCEPT !.conn = "closed", !.timed_out = timeout]
                  /\ ToolFail(w, "FILE_READ_FAILED")
             ELSE /\ run' = [run EXCEPT !.rows = got, !.total = IF got > 0 THEN n ELSE 0]
                  /\ pc' = [pc EXCEPT ![w] =
                               IF got = 0 /\ run.offset > 0 THEN "t_count" ELSE "t_close"]
                  /\ UNCHANGED <<req, loc, ret, hist>>
    /\ UNCHANGED <<src, wal, meta, xreq, art>>
    /\ UNCHANGED <<valVars, supVars, gr>>

\* tabular_query lines 5709-5714: the window is empty and the offset is not
\* zero: SELECT COUNT(*) FROM (<query>) AS q
ExecuteCount(w, timeout) ==
    /\ pc[w] = "t_count"
    /\ LET q == xreq.query
           n == ResultRows(q, db[ReqKey(w)].content)
       IN /\ xh' = [xh EXCEPT !.executed = @ \cup {run.conn}]
          /\ IF timeout \/ EngineRefuses(q, TRUE, run.conn)
             THEN /\ run' = [run EXCEPT !.conn = "closed", !.timed_out = timeout]
                  /\ ToolFail(w, "FILE_READ_FAILED")
             ELSE /\ run' = [run EXCEPT !.total = n]
                  /\ pc' = [pc EXCEPT ![w] = "t_close"]
                  /\ UNCHANGED <<req, loc, ret, hist>>
    /\ UNCHANGED <<src, db, wal, meta, xreq, art>>
    /\ UNCHANGED <<valVars, supVars, gr>>

\* tabular_query lines 5719-5734: conn.close() and the result
AnswerQuery(w) ==
    /\ pc[w] = "t_close"
    /\ req[w].op = "query"
    /\ run' = [run EXCEPT !.conn = "closed",
                          !.row_count = run.rows,
                          !.has_more = (run.offset + run.rows) < run.total]
    /\ ret' = [ret EXCEPT ![w] = [NoResponse EXCEPT !.ok = TRUE, !.code = "", !.op = "query",
                                                    !.data = run.rows]]
    /\ pc' = [pc EXCEPT ![w] = "reply"]
    /\ UNCHANGED <<req, loc, hist>>
    /\ UNCHANGED <<src, db, wal, meta, xreq, art, xh>>
    /\ UNCHANGED <<valVars, supVars, gr>>

\* tabular_read_rows lines 5634-5640: the entry is there; row_start and
\* row_count are parsed (all columns are selected)
ParseReadRows(w) ==
    /\ pc[w] = "cached"
    /\ req[w].op = "read_rows"
    /\ LET row_start == _tabular_parse_positive_int(xreq.row_start, 1)
           row_count_requested == _tabular_parse_positive_int(xreq.row_count, TABULAR_CHUNK_ROWS)
       IN IF row_start.ok /\ row_count_requested.ok
          THEN /\ run' = [run EXCEPT !.window = row_count_requested.value,
                                     !.offset = row_start.value - 1]
               /\ pc' = [pc EXCEPT ![w] = "t_open"]
               /\ UNCHANGED <<req, loc, ret, hist>>
          ELSE /\ ToolFail(w, "VALIDATION_FAILED")
               /\ UNCHANGED run
    /\ UNCHANGED <<src, db, wal, meta, xreq, art, xh>>
    /\ UNCHANGED <<valVars, supVars, gr>>

\* tabular_read_rows lines 5644-5662: SELECT ... FROM data ORDER BY rowid
\* LIMIT ? OFFSET ? without the supervisor, finally conn.close(), and the
\* result with total_rows taken from the metadata of the entry; an exception
\* of the engine is answered by handle_request (lines 6262-6263)
ExecuteReadRows(w, ok) ==
    /\ pc[w] = "t_exec"
    /\ req[w].op = "read_rows"
    /\ LET n == RowsOf(db[ReqKey(w)].content)
           got == Min(run.window, Max(0, n - run.offset))
           total_rows == IF loc[w].metadata.kind = "dict" THEN loc[w].metadata.row_count ELSE 0
       IN IF ok
          THEN /\ run' = [run EXCEPT !.conn = "closed", !.rows = got, !.row_count = got,
                                     !.total = total_rows,
                                     !.has_more = (run.offset + got) < total_rows]
               /\ ret' = [ret EXCEPT ![w] = [NoResponse EXCEPT !.ok = TRUE, !.code = "",
                                                               !.op = "read_rows", !.data = got]]
               /\ pc' = [pc EXCEPT ![w] = "reply"]
               /\ UNCHANGED <<req, loc, hist>>
          ELSE /\ run' = [run EXCEPT !.conn = "closed"]
               /\ ToolFail(w, "FILE_READ_FAILED")
    /\ UNCHANGED <<src, db, wal, meta, xreq, art, xh>>
    /\ UNCHANGED <<valVars, supVars, gr>>

\* tabular_describe lines 5424-5427, tabular_get_stats lines 5459-5463: the
\* entry is there; schema and row count are taken from its metadata (all
\* columns are selected)
SelectColumns(w) ==
    /\ pc[w] = "cached"
    /\ req[w].op \in {"describe", "get_stats"}
    /\ pc' = [pc EXCEPT ![w] = "t_open"]
    /\ UNCHANGED <<req, loc, ret, hist>>
    /\ UNCHANGED <<src, db, wal, meta, xreq, art, run, xh>>
    /\ UNCHANGED <<valVars, supVars, gr>>

\* ExecuteAggregates whose connection stays open when the engine raises
ExecuteAggregatesNoFinally(w, ok) ==
    /\ pc[w] = "t_exec"
    /\ req[w].op \in {"describe", "get_stats"}
    /\ LET row_count == IF loc[w].metadata.kind = "dict" THEN loc[w].metadata.row_count ELSE 0
       IN IF ok
          THEN /\ run' = [run EXCEPT !.conn = "closed", !.total = row_count]
               /\ ret' = [ret EXCEPT ![w] = [NoResponse EXCEPT !.ok = TRUE, !.code = "",
                                                               !.op = req[w].op,
                                                               !.data = row_count]]
               /\ pc' = [pc EXCEPT ![w] = "reply"]
               /\ UNCHANGED <<req, loc, hist>>
          ELSE /\ ToolFail(w, "FILE_READ_FAILED")
               /\ UNCHANGED run
    /\ UNCHANGED <<src, db, wal, meta, xreq, art, xh>>
    /\ UNCHANGED <<valVars, supVars, gr>>

\* tabular_describe lines 5430-5455, tabular_get_stats lines 5466-5630: the
\* aggregate statements run without the supervisor, finally conn.close(),
\* and the result with the row count of the metadata; an exception of the
\* engine is answered by handle_request (lines 6262-6263)
ExecuteAggregates(w, ok) ==
    /\ pc[w] = "t_exec"
    /\ req[w].op \in {"describe", "get_stats"}
    /\ LET row_count == IF loc[w].metadata.kind = "dict" THEN loc[w].metadata.row_count ELSE 0
       IN IF ok
          THEN /\ run' = [run EXCEPT !.conn = "closed", !.total = row_count]
               /\ ret' = [ret EXCEPT ![w] = [NoResponse EXCEPT !.ok = TRUE, !.code = "",
                                                               !.op = req[w].op,
                                                               !.data = row_count]]
               /\ pc' = [pc EXCEPT ![w] = "reply"]
               /\ UNCHANGED <<req, loc, hist>>
          ELSE /\ run' = [run EXCEPT !.conn = "closed"]
               /\ ToolFail(w, "FILE_READ_FAILED")
    /\ UNCHANGED <<src, db, wal, meta, xreq, art, xh>>
    /\ UNCHANGED <<valVars, supVars, gr>>

\* main, lines 6281-6284: the response is out, the next request line is read
NextToolLine(w) ==
    /\ pc[w] = "reply"
    /\ pc' = [pc EXCEPT ![w] = "idle"]
    /\ req' = [req EXCEPT ![w] = NoRequest]
    /\ loc' = [loc EXCEPT ![w] = NoLocals]
    /\ ret' = [ret EXCEPT ![w] = NoResponse]
    /\ xreq' = NoToolRequest
    /\ run' = NoRun
    /\ UNCHANGED <<src, db, wal, meta, hist, art, xh>>
    /\ UNCHANGED <<valVars, supVars, gr>>

(***************************************************************************)
(* Export and update_from_export.  A CSV target is a file of the workbench  *)
(* (src); the XLSX workbook and the temporary file beside it are `art`:     *)
(* 0 no file, PartialFile a file that is not whole, else the content.       *)
(***************************************************************************)
\* a file that was opened for writing and not written to its end
PartialFile == 97

\* the CSV text the exporter writes for the rows loaded from content c: a
\* file the exporter wrote is exported again as it is
NormalForm(c) == IF c >= 100 THEN c ELSE 100 + 3 * c

\* the CSV file an export of statement q writes from a table of content c
ExportedContent(q, c) == IF q = QNoRows THEN 100 ELSE NormalForm(c)

\* the workbook holding the rows of statement q on a table of content c
WorkbookOf(q, c) == IF q = QNoRows THEN 100 ELSE 100 + c

PathOutXlsx == <<"o","u","t",".","x","l","s","x">>

\* resolve_named_path(params, "target_path", "target_root", "draft",
\* require_write=True), lines 320-334
ResolveTargetPath(p) ==
    LET root == RootParam(p.target_root)
        rel_path == Strip(p.target_path)
    IN IF ~validate_write_root(root).ok THEN validate_write_root(root)
       ELSE IF ~validate_rel_path(rel_path).ok THEN validate_rel_path(rel_path)
       ELSE _resolve_rel_path(root, rel_path)

\* tabular_export lines 5952-5957, tabular_update_from_export lines 5997-5998:
\* the format is known and the target has its extension
TargetFormatOk(p) ==
    IF p.op = "export"
    THEN /\ p.format \in {"csv", "xlsx"}
         /\ EndsWithSeq(Lower(Strip(p.target_path)),
                        IF p.format = "csv" THEN <<".","c","s","v">> ELSE <<".","x","l","s","x">>)
    ELSE EndsWithSeq(Lower(Strip(p.target_path)), <<".","x","l","s","x">>)

\* the sheet names of the requests, the title of the one sheet of a new
\* openpyxl.Workbook(), and the default of _tabular_normalize_sheet_name
SheetData == <<"D","a","t","a">>
SheetDefault == <<"S","h","e","e","t">>
SheetOne == <<"S","h","e","e","t","1">>

\* the characters _tabular_normalize_sheet_name replaces by "_"
SheetForbidden == {"\\", "/", "?", "*", "[", "]", ":"}

\* lines 5747-5751: trimmed, "Sheet1" for none, forbidden characters
\* replaced, cut to 31 characters
_tabular_normalize_sheet_name(value) ==
    LET raw == IF Strip(value) = <<>> THEN SheetOne ELSE Strip(value)
        sanitized == [i \in 1..Len(raw) |-> IF raw[i] \in SheetForbidden THEN "_" ELSE raw[i]]
    IN SubSeq(sanitized, 1, Min(Len(sanitized), 31))

\* the placement modes of tabular_update_from_export (line 6006)
ModeReplaceSheet == <<"r","e","p","l","a","c","e","_","s","h","e","e","t">>
ModeAppendRows == <<"a","p","p","e","n","d","_","r","o","w","s">>
ModeWriteRange == <<"w","r","i","t","e","_","r","a","n","g","e">>
PlacementModes == {ModeReplaceSheet, ModeAppendRows, ModeWriteRange}

\* tabular_update_from_export lines 6000-6015: the sheet is named, the mode
\* is a placement mode, and clearing is asked for in write_range mode only
UpdateParamsOk(p) ==
    /\ Strip(p.sheet) # <<>>
    /\ Lower(Strip(p.mode)) \in PlacementModes
    /\ p.clear_target_range => Lower(Strip(p.mode)) = ModeWriteRange

ExportRequest(root, q, target_root, target_path, format) ==
    [NoToolRequest EXCEPT !.op = "export", !.root = root, !.path = PathLowerA, !.query = q,
                          !.target_root = target_root, !.target_path = target_path,
                          !.format = format]

UpdateRequest(q, sheet, mode, clear, create_workbook, create_sheet) ==
    [NoToolRequest EXCEPT !.op = "update_from_export", !.path = PathLowerA, !.query = q,
                          !.target_path = PathOutXlsx, !.format = "xlsx",
                          !.sheet = sheet, !.mode = mode, !.clear_target_range = clear,
                          !.create_workbook_if_missing = create_workbook,
                          !.create_sheet_if_missing = create_sheet]

\* the file the request writes
TargetFile == [root |-> Str(RootParam(xreq.target_root)), path |-> Strip(xreq.target_path)]

\* what stands at the target path now: the content of the file, 0 for none
TargetContent(file) == IF file \in Files THEN src[file].content ELSE art.workbook

\* tabular_export lines 5948-5957, tabular_update_from_export lines
\* 5995-6015: the target path is resolved and checked against the format,
\* then the sheet, mode and clear_target_range of an update are checked
ResolveTarget(w) ==
    /\ pc[w] = "cached"
    /\ req[w].op \in {"export", "update_from_export"}
    /\ LET target == ResolveTargetPath(xreq)
       IN IF ~target.ok
          THEN /\ ToolFail(w, target.code)
               /\ UNCHANGED <<run, xh>>
          ELSE IF ~TargetFormatOk(xreq)
          THEN /\ ToolFail(w, "VALIDATION_FAILED")
               /\ UNCHANGED <<run, xh>>
          ELSE IF req[w].op = "update_from_export" /\ ~UpdateParamsOk(xreq)
          THEN /\ ToolFail(w, "VALIDATION_FAILED")
               /\ UNCHANGED <<run, xh>>
          ELSE /\ run' = [run EXCEPT !.target = TargetFile]
               /\ xh' = [xh EXCEPT !.tool = req[w].op,
                                   !.file = TargetFile,
                                   !.before = TargetContent(TargetFile),
                                   !.expected =
                                       IF xreq.format = "csv"
                                       THEN ExportedContent(xreq.query, db[ReqKey(w)].content)
                                       ELSE WorkbookOf(xreq.query, db[ReqKey(w)].content)]
               /\ pc' = [pc EXCEPT ![w] = "t_query"]
               /\ UNCHANGED <<req, loc, ret, hist>>
    /\ UNCHANGED <<src, db, wal, meta, xreq, art>>
    /\ UNCHANGED <<valVars, supVars, gr>>

\* _tabular_export_csv / _tabular_export_xlsx: cursor = conn.execute(query),
\* and tabular_update_from_export lines 6019-6026 (_tabular_query_rows_for_export
\* reads all rows, then conn.close()), under the supervisor; the engine
\* refuses the statement, or the watchdog interrupts it (outcome "timeout")
ExecuteExport(w, outcome) ==
    /\ pc[w] = "t_exec"
    /\ req[w].op \in {"export", "update_from_export"}
    /\ LET q == xreq.query
           failed == outcome = "timeout" \/ EngineRefuses(q, FALSE, run.conn)
       IN /\ xh' = [xh EXCEPT !.executed = @ \cup {run.conn}]
          /\ db' = [db EXCEPT ![ReqKey(w)] = TableAfter(@, q, FALSE, run.conn)]
          /\ IF failed
             THEN /\ run' = [run EXCEPT !.conn = "closed", !.timed_out = (outcome = "timeout")]
                  /\ ToolFail(w, IF req[w].op = "export" THEN "FILE_WRITE_FAILED"
                                                         ELSE "FILE_READ_FAILED")
             ELSE /\ run' = [run EXCEPT !.conn = IF req[w].op = "export" THEN @ ELSE "closed"]
                  /\ pc' = [pc EXCEPT ![w] =
                               IF req[w].op = "update_from_export" THEN "u_load"
                               ELSE IF xreq.format = "csv" THEN "t_create" ELSE "t_build"]
                  /\ UNCHANGED <<req, loc, ret, hist>>
    /\ UNCHANGED <<src, wal, meta, xreq, art>>
    /\ UNCHANGED <<valVars, supVars, gr>>

\* _tabular_export_csv lines 5758-5760: open(target_path, "w") creates the
\* target or cuts it to nothing; the header row goes to the file buffer
CreateCsvTarget(w) ==
    /\ pc[w] = "t_create"
    /\ \E m \in Mtimes :
          /\ m >= src[run.target].mtime
          /\ src' = [src EXCEPT ![run.target] = [content |-> PartialFile, mtime |-> m]]
    /\ pc' = [pc EXCEPT ![w] = "t_rows"]
    /\ UNCHANGED <<db, wal, meta, req, loc, ret, hist, xreq, art, run, xh>>
    /\ UNCHANGED <<valVars, supVars, gr>>

\* _tabular_export_csv lines 5761-5769: the rows are fetched in batches and
\* written; fetchmany raises (outcome "error") or is interrupted by the
\* watchdog ("timeout") and the file stays as far as it was written
WriteCsvRows(w, outcome) ==
    /\ pc[w] = "t_rows"
    /\ IF outcome = "ok"
       THEN /\ src' = [src EXCEPT ![run.target].content = xh.expected]
            /\ pc' = [pc EXCEPT ![w] = "t_close"]
            /\ UNCHANGED <<req, loc, ret, hist, run>>
       ELSE /\ run' = [run EXCEPT !.conn = "closed", !.timed_out = (outcome = "timeout")]
            /\ ToolFail(w, "FILE_WRITE_FAILED")
            /\ UNCHANGED src
    /\ UNCHANGED <<db, wal, meta, xreq, art, xh>>
    /\ UNCHANGED <<valVars, supVars, gr>>

\* _tabular_export_xlsx lines 5779-5791: the workbook is filled in memory
\* from the batches fetched
BuildWorkbook(w, outcome) ==
    /\ pc[w] = "t_build"
    /\ IF outcome = "ok"
       THEN /\ pc' = [pc EXCEPT ![w] = "t_save"]
            /\ UNCHANGED <<req, loc, ret, hist, run>>
       ELSE /\ run' = [run EXCEPT !.conn = "closed", !.timed_out = (outcome = "timeout")]
            /\ ToolFail(w, "FILE_WRITE_FAILED")
    /\ UNCHANGED <<src, db, wal, meta, xreq, art, xh>>
    /\ UNCHANGED <<valVars, supVars, gr>>

\* _tabular_export_xlsx lines 5792-5793: wb.save(target_path) opens the
\* target for writing
BeginSaveWorkbook(w) ==
    /\ pc[w] = "t_save"
    /\ art' = [art EXCEPT !.workbook = PartialFile, !.sheets = {}]
    /\ pc' = [pc EXCEPT ![w] = "t_saving"]
    /\ UNCHANGED <<src, db, wal, meta, req, loc, ret, hist, xreq, run, xh>>
    /\ UNCHANGED <<valVars, supVars, gr>>

\* _tabular_export_xlsx line 5793: wb.save writes the archive to its end, or
\* raises on the way (disk full)
FinishSaveWorkbook(w, outcome) ==
    /\ pc[w] = "t_saving"
    /\ IF outcome = "ok"
       THEN /\ art' = [art EXCEPT !.workbook = xh.expected,
                                   !.sheets = {_tabular_normalize_sheet_name(xreq.sheet)}]
            /\ pc' = [pc EXCEPT ![w] = "t_close"]
            /\ UNCHANGED <<req, loc, ret, hist, run>>
       ELSE /\ run' = [run EXCEPT !.conn = "closed"]
            /\ ToolFail(w, "FILE_WRITE_FAILED")
            /\ UNCHANGED art
    /\ UNCHANGED <<src, db, wal, meta, xreq, xh>>
    /\ UNCHANGED <<valVars, supVars, gr>>

\* tabular_export lines 5971-5972: finally: conn.close()
CloseExport(w) ==
    /\ pc[w] = "t_close"
    /\ req[w].op = "export"
    /\ run' = [run EXCEPT !.conn = "closed"]
    /\ pc' = [pc EXCEPT ![w] = "t_invalidate"]
    /\ UNCHANGED <<src, db, wal, meta, req, loc, ret, hist, xreq, art, xh>>
    /\ UNCHANGED <<valVars, supVars, gr>>

\* tabular_export lines 5974-5986: a CSV written to the root "draft" has the
\* cache of its path removed (_tabular_invalidate_cache_for_rel_path ->
\* _tabular_remove_cache_files), then the result is returned
AnswerExport(w) ==
    /\ pc[w] = "t_invalidate"
    /\ IF xreq.format = "csv"
       THEN LET key == KeyOf[run.target.path]
            IN IF RootParam(xreq.target_root) = <<"d","r","a","f","t">>
               THEN /\ db' = [db EXCEPT ![key] = DbAbsent]
                    /\ wal' = [wal EXCEPT ![key] = FALSE]
                    /\ meta' = [meta EXCEPT ![key] = MetaAbsent]
                    /\ hist' = [hist EXCEPT !.exported[key] = NoFileId]
               ELSE /\ hist' = [hist EXCEPT !.exported[key] =
                                   IF meta[key].kind = "dict" /\ meta[key].path = run.target.path
                                   THEN run.target ELSE @]
                    /\ UNCHANGED <<db, wal, meta>>
       ELSE UNCHANGED <<db, wal, meta, hist>>
    /\ ret' = [ret EXCEPT ![w] = [NoResponse EXCEPT !.ok = TRUE, !.code = "", !.op = "export"]]
    /\ pc' = [pc EXCEPT ![w] = "reply"]
    /\ UNCHANGED <<src, req, loc, xreq, art, run, xh>>
    /\ UNCHANGED <<valVars, supVars, gr>>

\* lines 6041-6054: the sheets of the workbook once the named sheet is in
\* it; the one sheet of a workbook just made holds no data and is renamed,
\* a sheet that was written holds its header row and stays
SheetsWith(sheets, sheet_name, workbook_exists) ==
    IF sheet_name \in sheets THEN sheets
    ELSE IF Cardinality(sheets) = 1 /\ ~workbook_exists THEN {sheet_name}
    ELSE sheets \cup {sheet_name}

\* tabular_update_from_export lines 6028-6054: the target workbook is loaded
\* if it is there (a file that is no workbook cannot be read), else a new
\* workbook with its one sheet "Sheet" is made unless the caller disallowed
\* it; the named sheet is looked up and made unless the caller disallowed
\* it; lines 6056-6094 change the workbook in memory
LoadWorkbook(w) ==
    /\ pc[w] = "u_load"
    /\ LET workbook_exists == art.workbook # 0
           sheet_name == _tabular_normalize_sheet_name(xreq.sheet)
           sheetnames == IF workbook_exists THEN art.sheets ELSE {SheetDefault}
       IN IF art.workbook = PartialFile
          THEN /\ ToolFail(w, "FILE_READ_FAILED")
               /\ UNCHANGED run
          ELSE IF ~workbook_exists /\ ~xreq.create_workbook_if_missing
          THEN /\ ToolFail(w, "VALIDATION_FAILED")
               /\ UNCHANGED run
          ELSE IF sheet_name \notin sheetnames /\ ~xreq.create_sheet_if_missing
          THEN /\ ToolFail(w, "VALIDATION_FAILED")
               /\ UNCHANGED run
          ELSE /\ run' = [run EXCEPT !.sheets = SheetsWith(sheetnames, sheet_name, workbook_exists)]
               /\ pc' = [pc EXCEPT ![w] = "u_mkstemp"]
               /\ UNCHANGED <<req, loc, ret, hist>>
    /\ UNCHANGED <<src, db, wal, meta, xreq, art, xh>>
    /\ UNCHANGED <<valVars, supVars, gr>>

\* _xlsx_save_workbook_atomic lines 5931-5934: tempfile.mkstemp makes an
\* empty file in the directory of the target; if it cannot, the exception
\* reaches tabular_update_from_export (lines 6096-6099)
MakeTempFile(w, ok) ==
    /\ pc[w] = "u_mkstemp"
    /\ IF ok
       THEN /\ art' = [art EXCEPT !.tmp = PartialFile]
            /\ pc' = [pc EXCEPT ![w] = "u_save"]
            /\ UNCHANGED <<req, loc, ret, hist>>
       ELSE /\ ToolFail(w, "FILE_WRITE_FAILED")
            /\ UNCHANGED art
    /\ UNCHANGED <<src, db, wal, meta, xreq, run, xh>>
    /\ UNCHANGED <<valVars, supVars, gr>>

\* the workbook is saved over the target itself
SaveOverTarget(w, ok) ==
    /\ pc[w] = "u_save"
    /\ art' = [art EXCEPT !.workbook = IF ok THEN xh.expected ELSE PartialFile,
                          !.sheets = IF ok THEN run.sheets ELSE {}]
    /\ run' = [run EXCEPT !.failed = IF ok THEN @ ELSE "save"]
    /\ pc' = [pc EXCEPT ![w] = IF ok THEN "u_replace" ELSE "u_cleanup"]
    /\ UNCHANGED <<src, db, wal, meta, req, loc, ret, hist, xreq, xh>>
    /\ UNCHANGED <<valVars, supVars, gr>>

\* _xlsx_save_workbook_atomic line 5936: wb.save(tmp_path)
SaveTempFile(w, ok) ==
    /\ pc[w] = "u_save"
    /\ art' = [art EXCEPT !.tmp = IF ok THEN xh.expected ELSE PartialFile]
    /\ run' = [run EXCEPT !.failed = IF ok THEN @ ELSE "save"]
    /\ pc' = [pc EXCEPT ![w] = IF ok THEN "u_replace" ELSE "u_cleanup"]
    /\ UNCHANGED <<src, db, wal, meta, req, loc, ret, hist, xreq, xh>>
    /\ UNCHANGED <<valVars, supVars, gr>>

\* _xlsx_save_workbook_atomic line 5937: os.replace(tmp_path, target_path),
\* then tabular_update_from_export returns its result (lines 6101-6109)
ReplaceTarget(w, ok) ==
    /\ pc[w] = "u_replace"
    /\ IF ok
       THEN /\ art' = [workbook |-> art.tmp, tmp |-> 0, sheets |-> run.sheets]
            /\ UNCHANGED run
            /\ ret' = [ret EXCEPT ![w] = [NoResponse EXCEPT !.ok = TRUE, !.code = "",
                                                            !.op = "update_from_export"]]
            /\ pc' = [pc EXCEPT ![w] = "reply"]
       ELSE /\ pc' = [pc EXCEPT ![w] = "u_cleanup"]
            /\ run' = [run EXCEPT !.failed = "replace"]
            /\ UNCHANGED <<art, ret>>
    /\ UNCHANGED <<src, db, wal, meta, req, loc, hist, xreq, xh>>
    /\ UNCHANGED <<valVars, supVars, gr>>

\* _xlsx_save_workbook_atomic lines 5938-5943: except: os.remove(tmp_path),
\* raise WorkerError("FILE_WRITE_FAILED", ...)
RemoveTempFile(w) ==
    /\ pc[w] = "u_cleanup"
    /\ art' = [art EXCEPT !.tmp = 0]
    /\ ToolFail(w, "FILE_WRITE_FAILED")
    /\ UNCHANGED <<src, db, wal, meta, xreq, run, xh>>
    /\ UNCHANGED <<valVars, supVars, gr>>

\* the worker process is killed in the middle of a tool request and started
\* again: its memory is gone, the files stay as they are
ToolCrash(w) ==
    /\ pc[w] \notin {"idle", "reply"}
    /\ pc' = [pc EXCEPT ![w] = "idle"]
    /\ req' = [req EXCEPT ![w] = NoRequest]
    /\ loc' = [loc EXCEPT ![w] = NoLocals]
    /\ xreq' = NoToolRequest
    /\ run' = NoRun
    /\ hist' = HistAfterFailure(w)
    /\ UNCHANGED <<src, db, wal, meta, ret, art, xh>>
    /\ UNCHANGED <<valVars, supVars, gr>>

(***************************************************************************)
(* Specifications.                                                          *)
(***************************************************************************)
\* one worker process: every request runs start to finish before the next
Serving == {1}

Init == ValidatorAtRest /\ CacheInit /\ SupAtRest /\ ToolsAtRest

Next ==
    \/ \E w \in Serving : \E op \in Operations : \E f \in DraftFiles : ValidateSource(w, op, f)
    \/ \E w \in Serving : SourceSignature(w)
    \/ \E w \in Serving : LoadMetadata(w)
    \/ \E w \in Serving : CheckFresh(w)
    \/ \E w \in Serving : RemoveDb(w)
    \/ \E w \in Serving : RemoveWal(w)
    \/ \E w \in Serving : RemoveMeta(w)
    \/ \E w \in Serving : OpenForIngest(w)
    \/ \E w \in Serving : Ingest(w)
    \/ \E w \in Serving : CloseIngest(w)
    \/ \E w \in Serving : WriteMetadata(w)
    \/ \E w \in Serving : GetMap(w)
    \/ \E w \in Serving : ReadRows(w)
    \/ \E w \in Serving : NextLine(w)
    \/ \E w \in Serving : Crash(w)
    \/ \E f \in Edited : \E c \in Contents : \E m \in Mtimes : WriteSource(f, c, m)
    \/ \E f \in Edited : DeleteSource(f)

Spec == Init /\ [][Next]_vars

\* several worker processes on the same workbench directory, reading rows
\* of the file its owner edits
NextConcurrent ==
    \/ \E w \in Workers : \E f \in Edited : ValidateSource(w, "read_rows", f)
    \/ \E w \in Workers : SourceSignature(w)
    \/ \E w \in Workers : LoadMetadata(w)
    \/ \E w \in Workers : CheckFresh(w)
    \/ \E w \in Workers : RemoveDb(w)
    \/ \E w \in Workers : RemoveWal(w)
    \/ \E w \in Workers : RemoveMeta(w)
    \/ \E w \in Workers : OpenForIngest(w)
    \/ \E w \in Workers : Ingest(w)
    \/ \E w \in Workers : CloseIngest(w)
    \/ \E w \in Workers : WriteMetadata(w)
    \/ \E w \in Workers : ReadRows(w)
    \/ \E w \in Workers : NextLine(w)
    \/ \E f \in Edited : \E c \in Contents : SaveSource(f, c)

SpecConcurrent == Init /\ [][NextConcurrent]_vars

NextValidator == (\E it \in AppendItems : ComposeQuery(it)) \/ ValidateQuery

InitValidator == ValidatorInit /\ CacheAtRest /\ SupAtRest /\ ToolsAtRest

SpecValidator == InitValidator /\ [][NextValidator]_vars

\* one supervised call after the other, the timer thread running beside it
NextSupervisor ==
    \/ \E op \in SupervisedOps : \E t \in TimeoutsMs : \E i \in BOOLEAN :
           CallSupervised(op, t, i)
    \/ StartTimer
    \/ BeginOperation
    \/ OperationReturns
    \/ \E exc \in {"statement_error", "interrupted"} : OperationRaises(exc)
    \/ HandleException
    \/ SetDone
    \/ CancelTimer
    \/ TimerFires
    \/ CheckDone
    \/ SetTimedOut
    \/ Interrupt
    \/ StaleInterrupt
    \/ LeaveSupervised

\* the paths a caller names as the source of a tool request
PathSpaced == <<" ">> \o PathLowerA \o <<" ">>
PathAbsolute == <<"/">> \o PathLowerA
PathTraversal == <<".", ".", "/">> \o PathLowerA
PathNested == <<"d", "/">> \o PathLowerA
PathText == <<"a", ".", "t", "x", "t">>
PathMissing == <<>>

SourcePathParams ==
    {PathSpaced, PathUpperA, PathAbsolute, PathTraversal, PathNested, PathText, PathMissing}

\* query requests on the draft file, window by window
PagingRequests ==
    {QueryRequest(RootDefault, PathLowerA, q, r, o) :
        q \in {QAllRows, QNoRows}, r \in 1..MaxWindow, o \in 0..MaxOffset}

QueryRequests ==
    {QueryRequest(RootDefault, PathLowerA, q, 1, 0) : q \in {QAllRowsNote, QCteInsert, QDrop}}
    \cup {QueryRequest(RootStaging, PathLowerA, QAllRows, 1, 0)}

PathRequests ==
    {QueryRequest(RootDefault, p, QAllRows, 1, 0) : p \in SourcePathParams}
    \cup {QueryRequest(PathTraversal, PathLowerA, QAllRows, 1, 0)}

\* target root, target path and format of an export
ExportTargets ==
    {<<RootDefault, PathLowerA, "csv">>,
     <<RootStaging, PathLowerA, "csv">>,
     <<RootDefault, PathOutXlsx, "xlsx">>,
     <<RootPublished, PathLowerA, "csv">>,
     <<RootDefault, PathOutXlsx, "csv">>}

ExportRequests ==
    {ExportRequest(root, q, t[1], t[2], t[3]) :
        root \in {RootDefault, RootStaging}, q \in {QNone, QNoRows, QCteInsert}, t \in ExportTargets}
    \cup {ExportRequest(RootPublished, QNone, RootDefault, PathLowerA, "csv")}
    \cup {ExportRequest(RootDefault, q, RootDefault, PathOutXlsx, "xlsx") :
              q \in {QBlank, QOrdered, QOrderNote, QDrop}}

ModeUnknown == <<"m","e","r","g","e">>

\* updates of out.xlsx: sheet, mode, clear_target_range,
\* create_workbook_if_missing, create_sheet_if_missing
UpdateParams ==
    {<<SheetData, ModeReplaceSheet, FALSE, TRUE, TRUE>>,
     <<SheetData, ModeWriteRange, TRUE, TRUE, TRUE>>,
     <<SheetData, ModeAppendRows, TRUE, TRUE, TRUE>>,
     <<SheetData, ModeUnknown, FALSE, TRUE, TRUE>>,
     <<SheetData, ModeReplaceSheet, FALSE, FALSE, TRUE>>,
     <<SheetData, ModeReplaceSheet, FALSE, TRUE, FALSE>>,
     <<SheetDefault, ModeAppendRows, FALSE, TRUE, FALSE>>,
     <<<<>>, ModeReplaceSheet, FALSE, TRUE, TRUE>>}

\* windows sent as no whole number, as zero or below, or left out
WindowRequests ==
    {WindowRequest(r, o) : r \in {0, 1, -Halves}, o \in {0}}
    \cup {WindowRequest(Halves, o) : o \in {-Halves, -1, 1}}
    \cup {WindowRequest(NoNumber, NoNumber)}

ReadRowsRequests ==
    {ReadRowsRequest(Halves * s, Halves * c) : s \in 1..MaxWindow + 1, c \in 1..MaxWindow}
    \cup {ReadRowsRequest(s, Halves) : s \in {0, 1, -Halves, NoNumber}}
    \cup {ReadRowsRequest(Halves, c) : c \in {0, 1, -Halves, NoNumber}}

\* describe and get_stats of the draft file
ColumnRequests ==
    {[NoToolRequest EXCEPT !.op = op, !.path = PathLowerA] : op \in {"describe", "get_stats"}}

UpdateRequests ==
    {UpdateRequest(QNoRows, SheetData, ModeReplaceSheet, FALSE, TRUE, TRUE)}
    \cup {UpdateRequest(QNone, u[1], u[2], u[3], u[4], u[5]) : u \in UpdateParams}

ToolRequests ==
    PagingRequests \cup QueryRequests \cup PathRequests \cup WindowRequests
    \cup ReadRowsRequests \cup ColumnRequests \cup ExportRequests \cup UpdateRequests

\* a workbench with a CSV in the draft and a copy of it in the staging root,
\* nothing cached yet, no workbook
ToolsInit ==
    /\ src = [f \in Files |-> IF f.path = PathLowerA THEN [content |-> 1, mtime |-> 1] ELSE NoFile]
    /\ meta = [k \in Keys |-> MetaAbsent]
    /\ db = [k \in Keys |-> DbAbsent]
    /\ wal = [k \in Keys |-> FALSE]
    /\ pc = [w \in Workers |-> "idle"]
    /\ req = [w \in Workers |-> NoRequest]
    /\ loc = [w \in Workers |-> NoLocals]
    /\ ret = [w \in Workers |-> NoResponse]
    /\ hist = HistInit
    /\ ToolsAtRest

Outcomes == {"ok", "error", "timeout"}

\* one worker process serving tool requests
NextTools ==
    \/ \E w \in Serving : \E p \in ToolRequests : ReceiveTool(w, p)
    \/ \E w \in Serving : SourceSignature(w)
    \/ \E w \in Serving : LoadMetadata(w)
    \/ \E w \in Serving : CheckFresh(w)
    \/ \E w \in Serving : RemoveDb(w)
    \/ \E w \in Serving : RemoveWal(w)
    \/ \E w \in Serving : RemoveMeta(w)
    \/ \E w \in Serving : OpenForIngest(w)
    \/ \E w \in Serving : Ingest(w)
    \/ \E w \in Serving : CloseIngest(w)
    \/ \E w \in Serving : WriteMetadata(w)
    \/ \E w \in Serving : ResolveTarget(w)
    \/ \E w \in Serving : ValidateToolQuery(w)
    \/ \E w \in Serving : OpenReadOnly(w)
    \/ \E w \in Serving : \E t \in BOOLEAN : ExecuteWindow(w, t)
    \/ \E w \in Serving : \E t \in BOOLEAN : ExecuteCount(w, t)
    \/ \E w \in Serving : AnswerQuery(w)
    \/ \E w \in Serving : ParseReadRows(w)
    \/ \E w \in Serving : \E ok \in BOOLEAN : ExecuteReadRows(w, ok)
    \/ \E w \in Serving : SelectColumns(w)
    \/ \E w \in Serving : \E ok \in BOOLEAN : ExecuteAggregates(w, ok)
    \/ \E w \in Serving : \E o \in {"ok", "timeout"} : ExecuteExport(w, o)
    \/ \E w \in Serving : CreateCsvTarget(w)
    \/ \E w \in Serving : \E o \in Outcomes : WriteCsvRows(w, o)
    \/ \E w \in Serving : \E o \in Outcomes : BuildWorkbook(w, o)
    \/ \E w \in Serving : BeginSaveWorkbook(w)
    \/ \E w \in Serving : \E o \in {"ok", "error"} : FinishSaveWorkbook(w, o)
    \/ \E w \in Serving : CloseExport(w)
    \/ \E w \in Serving : AnswerExport(w)
    \/ \E w \in Serving : LoadWorkbook(w)
    \/ \E w \in Serving : \E ok \in BOOLEAN : MakeTempFile(w, ok)
    \/ \E w \in Serving : \E ok \in BOOLEAN : SaveTempFile(w, ok)
    \/ \E w \in Serving : \E ok \in BOOLEAN : ReplaceTarget(w, ok)
    \/ \E w \in Serving : RemoveTempFile(w)
    \/ \E w \in Serving : NextToolLine(w)
    \/ \E w \in Serving : ToolCrash(w)

InitTools == ValidatorAtRest /\ ToolsInit /\ SupAtRest

SpecTools == InitTools /\ [][NextTools]_vars

InitSupervisor == ValidatorAtRest /\ CacheAtRest /\ SupAtRest /\ ToolsAtRest

SpecSupervisor == InitSupervisor /\ [][NextSupervisor]_vars

NextGuardrails ==
    \/ \E accepts \in SUBSET Statements : \E i \in BOOLEAN : Connect(accepts, i)
    \/ TrySetStatement
    \/ ReportGuardrails
    \/ CloseConnection

InitGuardrails == ValidatorAtRest /\ CacheAtRest /\ SupAtRest /\ ToolsAtRest

SpecGuardrails == InitGuardrails /\ [][NextGuardrails]_vars

(***************************************************************************)
(* Properties of the cache store.                                           *)
(***************************************************************************)
\* the conditions under which a persisted entry may be reused, on what the
\* call loaded and saw
ReuseConditions(w) ==
    /\ loc[w].loaded.kind = "dict"
    /\ loc[w].loaded.version = TABULAR_CACHE_VERSION
    /\ loc[w].loaded.path = req[w].path
    /\ loc[w].loaded.size_bytes = loc[w].sig.size_bytes
    /\ loc[w].loaded.mtime_ns = loc[w].sig.mtime_ns
    /\ loc[w].loaded.sha256 = loc[w].sig.sha256
    /\ loc[w].db_seen # "absent"

\* C1: when _tabular_ensure_cache returns, the entry it returns carries the
\* signature computed in that call, and it is a reused entry (not rebuilt)
\* only if the loaded metadata was readable, of the current version, for the
\* requested path, with size, mtime and hash equal to the computed ones, and
\* the cache file was there.
C1_ReuseOnlyIfFresh ==
    \A w \in Workers :
        pc[w] = "cached" =>
            /\ loc[w].metadata.kind = "dict"
            /\ loc[w].metadata.size_bytes = loc[w].sig.size_bytes
            /\ loc[w].metadata.mtime_ns = loc[w].sig.mtime_ns
            /\ loc[w].metadata.sha256 = loc[w].sig.sha256
            /\ ~loc[w].rebuilt => ReuseConditions(w) /\ loc[w].metadata = loc[w].loaded

C1_Witness ==
    \E w \in Workers :
        /\ pc[w] = "cached"
        /\ ~loc[w].rebuilt
        /\ loc[w].metadata = meta[ReqKey(w)]

\* C2: after a call that succeeded, a further call for the same file with
\* the source untouched in between never enters the rebuild (no removal, no
\* ingestion, no metadata write), finds the persisted record as the first
\* call left it, and returns that same metadata.
C2_Idempotent ==
    \A w \in Workers :
        pc[w] # "idle" /\ hist.last.file = ReqFile(w) =>
            /\ pc[w] \notin RebuildPcs
            /\ meta[ReqKey(w)] = hist.last.metadata
            /\ pc[w] = "cached" => ~loc[w].rebuilt /\ loc[w].metadata = hist.last.metadata

C2_Witness ==
    \E w \in Workers :
        /\ pc[w] = "cached"
        /\ hist.last.file = ReqFile(w)
        /\ ~loc[w].rebuilt
        /\ loc[w].metadata = hist.last.metadata

\* C3: a read that began after the source's content was changed (the file
\* being cached at the time of the change), and during which the source was
\* not written, is answered with rows of the content the source holds.
C3_AnsweredFromCurrentSource ==
    \A w \in Workers :
        /\ pc[w] = "reply"
        /\ ret[w].ok
        /\ ret[w].op = "read_rows"
        /\ loc[w].stale
        /\ ~hist.touched[w]
        => ret[w].data = ret[w].current

C5_ReaderSeesWholeCache ==
    \A w \in Workers :
        /\ pc[w] = "reply"
        /\ ret[w].op = "read_rows"
        /\ ret[w].seen # None
        /\ ~loc[w].rebuilt
        => ret[w].seen = "complete"

(***************************************************************************)
(* Properties of the validator.                                             *)
(***************************************************************************)
Validated == vres # NotValidated

\* the statement semicolons the caller wrote (outside literals and comments)
SemicolonItems(items) == {i \in 1..Len(items) : items[i] = ItSemi}

\* the scanning copy of the query, trimmed
ScanningCopy(items) == Strip(StripSql(Strip(Text(items))))

\* the scanning copy after removal of a trailing semicolon, trimmed
StatementCopy(items) ==
    LET copy == ScanningCopy(items)
    IN IF EndsWith(copy, ";") THEN Strip(DropLast(copy)) ELSE copy

\* the first whitespace-delimited token of a trimmed, non-empty text
LeadingWord(s) ==
    LET n == CHOOSE n \in 1..Len(s) :
                 /\ \A i \in 1..n : ~IsSpace(s[i])
                 /\ n = Len(s) \/ IsSpace(s[n + 1])
    IN SubSeq(s, 1, n)

\* some token is a dangerous keyword whose preceding token is absent or not
\* an identifier-context token
KeywordInStatementPosition(tokens) ==
    \E i \in 1..Len(tokens) :
        /\ tokens[i] \in _DANGEROUS_KEYWORDS
        /\ i = 1 \/ tokens[i - 1] \notin _IDENT_CONTEXT_TOKENS

\* a name the path-function rule lists: read_*, *_scan or one of the six names
IsPathFunctionName(name) ==
    \/ Len(name) >= 6 /\ SubSeq(name, 1, 5) = <<"r","e","a","d","_">>
    \/ Len(name) >= 6 /\ SubSeq(name, Len(name) - 4, Len(name)) = <<"_","s","c","a","n">>
    \/ name \in PathFunctionNames

\* the query as written calls a path function: a whole word with a listed
\* name, then only whitespace and comments, then an opening parenthesis
CallsPathFunction(items) ==
    \E a \in 1..Len(items) : \E b \in a..Len(items) : \E q \in b + 1 .. Len(items) :
        /\ \A m \in a..b : items[m].k = "word"
        /\ a = 1 \/ items[a - 1].k # "word"
        /\ IsPathFunctionName(Lower(Text(SubSeq(items, a, b))))
        /\ \A m \in b + 1 .. q - 1 : IsTrivia(items[m])
        /\ items[q] = ItOpen

\* C6: every accepted query is a read-only statement: a query that is a
\* modifying statement (DROP, a second statement, WITH ... INSERT), however
\* whitespace and comments are laid around it, is not accepted.
C6_AcceptedIsReadOnly ==
    Validated /\ vres.ok => rawInfo.stmt # "modify"

\* C7: an accepted query holds no statement semicolon, or exactly one that is
\* followed by nothing but whitespace in the text the caller wrote.
C7_SingleStatement ==
    Validated /\ vres.ok =>
        LET semis == SemicolonItems(rawItems)
        IN \/ semis = {}
           \/ /\ Cardinality(semis) = 1
              /\ \A i \in semis : \A j \in i + 1 .. Len(rawItems) : rawItems[j].k = "ws"

\* C8: when the first token of the scanning copy (trimmed, trailing semicolon
\* removed) is neither select nor with, the query is rejected with
\* VALIDATION_FAILED, and never by the keyword scan or the path-function
\* rule, which run later; DROP TABLE data is rejected as a non-SELECT query.
C8_LeadingToken ==
    Validated =>
        /\ LET copy == StatementCopy(rawItems)
           IN copy # <<>> /\ Str(Lower(LeadingWord(copy))) \notin {"select", "with"}
              => /\ ~vres.ok
                 /\ vres.code = "VALIDATION_FAILED"
                 /\ vres.message \notin {"query must be read-only",
                                         "path-reading functions are not allowed"}
        /\ rawItems = QDrop => vres.message = "only SELECT/CTE queries are allowed"

C8_Witness ==
    /\ Validated
    /\ rawItems = QDrop
    /\ vres.message = "only SELECT/CTE queries are allowed"

\* C9: a query that reaches the keyword scan is rejected by it exactly when
\* some token of the lower-cased scanning copy is a dangerous keyword whose
\* preceding token (a skipped keyword included) is absent or not an
\* identifier-context token; SELECT Comment FROM data and updated_at pass.
C9_KeywordScan ==
    Validated =>
        /\ vres.message \in {"", "query must be read-only",
                             "path-reading functions are not allowed"}
           => ( vres.message = "query must be read-only"
                <=> KeywordInStatementPosition(Tokens(Lower(StatementCopy(rawItems)))) )
        /\ rawItems \in {QComment, QUpdatedAt} => vres.ok

C9_Witness ==
    /\ Validated
    /\ rawItems = QSelectUpdate \o <<ItSpace, ItComment>>
    /\ vres.message = "query must be read-only"

\* C10: no accepted query calls, outside literals and comments, a function
\* with a path-function name.
C10_NoPathFunction ==
    Validated /\ vres.ok => ~CallsPathFunction(rawItems)

\* the original text trimmed, and the original text with its statement
\* semicolon (the last item before trailing whitespace) removed and trimmed
SafeQueries(items) ==
    LET core == DropTrailingSpace(items)
    IN {Strip(Text(items))}
       \cup (IF core # <<>> /\ core[Len(core)] = ItSemi
             THEN {Strip(Text(DropLast(core)))}
             ELSE {})

\* C11: the query returned for an accepted text is the text the caller wrote,
\* trimmed, with at most its trailing statement semicolon removed; every
\* literal, quoted identifier and comment is returned as written.
C11_SafeQueryIsOriginal ==
    Validated /\ vres.ok => vres.query \in SafeQueries(rawItems)

(***************************************************************************)
(* Properties of the cancellation supervisor.                               *)
(***************************************************************************)
\* event a is in the log of the call before event b
Before(a, b) ==
    \E i \in 1..Len(sup.log) : \E j \in i + 1 .. Len(sup.log) :
        sup.log[i] = a /\ sup.log[j] = b

Logged(a) == \E i \in 1..Len(sup.log) : sup.log[i] = a

\* the supervised call has handed an exception to its caller
SupervisedRaised == sup.mpc = "out" /\ sup.outcome.kind = "error"

\* C14: when a supervised operation raised, the caller gets the timeout
\* error, naming the configured milliseconds, exactly when the watchdog had
\* set the timeout flag before the exception was handled; otherwise it gets
\* the operation's own exception as it was raised.
C14_TimeoutClassification ==
    SupervisedRaised =>
        IF Before("set_flag", "except")
        THEN sup.outcome = TimeoutError(sup.error_code, sup.timeout)
        ELSE sup.outcome = OriginalError(sup.exc)

C14_Witness ==
    /\ SupervisedRaised
    /\ sup.exc = "interrupted"
    /\ sup.outcome.message = "query timed out after"
    /\ sup.outcome.ms = 5000

\* C15: the timer is started before the operation is entered; when control
\* is back with the caller, after a return or a raise, the done flag is set
\* and the timer has been cancelled (it is not waiting to fire); a callback
\* that saw the done flag set has neither set the timeout flag nor called
\* interrupt.
C15_TimerLifecycle ==
    /\ Logged("op_begin") => Before("start_timer", "op_begin")
    /\ sup.mpc = "out" =>
          /\ sup.done
          /\ Before("set_done", "cancel")
          /\ sup.timer # "waiting"
    /\ Logged("saw_done") =>
          /\ ~sup.timed_out
          /\ ~Logged("set_flag")
          /\ ~Logged("interrupt")

C15_Witness ==
    /\ SupervisedRaised
    /\ sup.timer = "fired"
    /\ Logged("saw_done")

\* C16: whatever the supervised operation (query, export to CSV or XLSX,
\* update_from_export), a timeout is answered with code FILE_READ_FAILED and
\* a message naming the configured timeout.
C16_TimeoutIsReadFailure ==
    SupervisedRaised /\ sup.outcome.message = "query timed out after" =>
        /\ ToolError(sup.op, sup.outcome).code = "FILE_READ_FAILED"
        /\ ToolError(sup.op, sup.outcome).ms = sup.timeout

(***************************************************************************)
(* Properties of the tools.                                                 *)
(***************************************************************************)
\* the request of worker 1 has been answered
Answered(op) == pc[1] = "reply" /\ xreq.op = op

\* C12: the caller's statements run on read-only connections only: no tool
\* holds a writable connection, the writable connection of a rebuild is open
\* while no tool connection is, and the table of a cache file is always as
\* an ingest of the source loaded it (no statement has changed it).
C12_CallerSqlReadOnly ==
    /\ xh.executed \subseteq {"ro"}
    /\ run.conn # "rw"
    /\ pc[1] \in {"ingest", "close_rw"} => run.conn = "closed" /\ xh.executed = {}
    /\ \A k \in Keys : db[k].content < 1000

C12_Witness ==
    /\ Answered("export")
    /\ xreq.query = QCteInsert
    /\ run.safe.ok
    /\ xh.executed = {"ro"}
    /\ ret[1].code = "FILE_WRITE_FAILED"

\* a query request whose source was accepted, whose query is a statement
\* that reads, and whose statements the watchdog did not interrupt
ReadingQueryAnswered ==
    /\ Answered("query")
    /\ req[1].path # <<>>
    /\ ~IsModifying(xreq.query)
    /\ ~run.timed_out

\* the window size sent is a whole number above zero and the offset sent a
\* whole number not below zero
WholeWindow ==
    /\ xreq.window_rows > 0 /\ xreq.window_rows % Halves = 0
    /\ xreq.window_offset >= 0 /\ xreq.window_offset % Halves = 0

\* C13: a query request for window W > 0 at offset k >= 0 on a query whose
\* full result has N rows is answered with min(W, max(0, N - k)) rows and
\* total_row_count N.
C13_PaginationExact ==
    ReadingQueryAnswered /\ WholeWindow =>
        LET n == ResultRows(xreq.query, db[ReqKey(1)].content)
        IN /\ ret[1].ok
           /\ run.rows = Min(IntOf(xreq.window_rows), Max(0, n - IntOf(xreq.window_offset)))
           /\ run.total = n

\* C17: from the moment an export has resolved its target, the target path
\* holds what it held before or the complete new export, whether the export
\* is running, has answered, has failed or was killed.
C17_ExportAtomic ==
    xh.tool = "export" => TargetContent(xh.file) \in {xh.before, xh.expected}

C19_ExportInvalidatesCache ==
    /\ Answered("export") /\ ret[1].ok /\ xreq.format = "csv" =>
          LET key == KeyOf[run.target.path]
          IN db[key] = DbAbsent /\ ~wal[key] /\ meta[key] = MetaAbsent
    /\ pc[1] = "cached" /\ ~loc[1].rebuilt => hist.exported[ReqKey(1)] # ReqFile(1)

\* the path names a place outside the sandbox: absolute, with a ".."
\* component, or with a separator
OutsideSandbox(path) ==
    \/ StartsWith(path, <<"/">>)
    \/ HasSub(path, <<".", ".", "/">>)
    \/ HasSub(path, <<"/">>)

\* C20: a request whose path does not resolve inside the sandbox or does not
\* end in .csv is answered VALIDATION_FAILED, one whose file is absent is
\* answered FILE_READ_FAILED, and in both cases the cache files and metadata
\* records are as they were when the request arrived.
C20_SourceValidation ==
    pc[1] = "reply" /\ xreq.op = "query" /\ validate_root(RootParam(xreq.root)).ok =>
        LET path == Strip(xreq.path)
            bad_path == OutsideSandbox(path) \/ ~EndsWithSeq(Lower(path), <<".","c","s","v">>)
            absent == ~bad_path /\ ~IsFile(RootParam(xreq.root), path)
        IN /\ bad_path => ret[1].code = "VALIDATION_FAILED" /\ <<db, wal, meta>> = xh.cache
           /\ absent => ret[1].code = "FILE_READ_FAILED" /\ <<db, wal, meta>> = xh.cache

(***************************************************************************)
(* Properties of the supervisor across calls.                               *)
(***************************************************************************)
\* C23: when the supervised operation returned, the caller gets its value
\* unchanged whether or not the timeout has elapsed meanwhile; the caller
\* gets the timeout error only when the operation raised, and raised after
\* the timeout flag was set.
C23_ReclassificationOnly ==
    sup.mpc = "out" =>
        /\ Logged("op_return") => sup.outcome = Returned
        /\ sup.outcome.message = "query timed out after" =>
              Before("set_flag", "op_raise")

\* C27: a timer thread calls interrupt only while the call that started it
\* is in progress; so when the unwindowed count of tabular_query is
\* interrupted, its own timer did it and the caller gets the timeout error.
C27_WatchdogOwnOperationOnly ==
    /\ ~Logged("stale_interrupt")
    /\ SupervisedRaised /\ sup.op = "query_count" /\ sup.exc = "interrupted" =>
          sup.outcome = TimeoutError(sup.error_code, sup.timeout)

(***************************************************************************)
(* Properties of opening a connection.                                      *)
(***************************************************************************)
\* the candidates of a limit up to and including the first the engine accepts
Tried(limit) ==
    LET c == Candidates[limit]
        hits == {i \in 1..Len(c) : c[i] \in gr.accepts}
        last == IF hits = {} THEN Len(c) ELSE CHOOSE i \in hits : \A j \in hits : i <= j
    IN SubSeq(c, 1, last)

\* C24: when the connection is handed to the tool, every limit was tried
\* with its candidates in order up to the first the engine accepted and no
\* further; whichever statements failed, the connection is open; and when
\* the engine accepted no timeout statement the guardrail gap was logged.
C24_Guardrails ==
    gr.gpc = "open" =>
        /\ gr.executed = Tried("memory") \o Tried("threads") \o Tried("timeout")
        /\ \A l \in DOMAIN Candidates :
              gr.configured[l] <=> \E i \in 1..Len(Candidates[l]) : Candidates[l][i] \in gr.accepts
        /\ ~gr.configured.timeout => gr.logged

EntryReturned(w) == pc[w] = "cached" /\ ~hist.touched[w] /\ Exists(src[ReqFile(w)])

\* C28: paths that differ in letter case only share one cache key; an entry
\* is reused only when its recorded path is the requested path and its
\* recorded hash is the hash of the requested file; and the entry a call
\* returns describes the content the requested file holds: its row count
\* and the table of its cache file are those of that content.
C28_KeyCollisionSafe ==
    /\ KeyOf[PathLowerA] = KeyOf[PathUpperA]
    /\ \A w \in Workers :
          EntryReturned(w) =>
              /\ ~loc[w].rebuilt =>
                    /\ loc[w].loaded.path = req[w].path
                    /\ loc[w].loaded.sha256 = ShaOf(src[ReqFile(w)].content)
              /\ loc[w].metadata.path = req[w].path
              /\ loc[w].metadata.row_count = RowsOf(src[ReqFile(w)].content)
              /\ db[ReqKey(w)] = DbComplete(src[ReqFile(w)].content)

(***************************************************************************)
(* The scanning copy against the query as written.                         *)
(***************************************************************************)
\* the words the caller wrote outside literals and comments, lowered: each
\* maximal run of word items
WordRuns(items) ==
    {Str(Lower(Text(SubSeq(items, p[1], p[2])))) : p \in
        {p \in (1..Len(items)) \X (1..Len(items)) :
            /\ p[1] <= p[2]
            /\ \A m \in p[1]..p[2] : items[m].k = "word"
            /\ p[1] = 1 \/ items[p[1] - 1].k # "word"
            /\ p[2] = Len(items) \/ items[p[2] + 1].k # "word"}}

\* the words the scans see: the tokens of the lowered scanning copy that are
\* not punctuation
ScanWords(items) ==
    LET tokens == Tokens(Lower(ScanningCopy(items)))
    IN {tokens[i] : i \in {j \in 1..Len(tokens) : tokens[j] \notin SplitPunct}}

\* C22: the scanning copy holds nothing that stands inside a literal or a
\* comment and everything that stands outside them: its semicolons are the
\* statement semicolons the caller wrote, and the words the scans see are
\* exactly the words the caller wrote outside literals and comments, so a
\* keyword or path-function name outside them is always seen and one inside
\* them never is.
C22_ScanSeesCodeOutsideLiterals ==
    Validated =>
        /\ Count(ScanningCopy(rawItems), ";") = Cardinality(SemicolonItems(rawItems))
        /\ ScanWords(rawItems) = WordRuns(rawItems)

(***************************************************************************)
(* The parameters of update_from_export.                                   *)
(***************************************************************************)
\* the mode is no placement mode, or clearing is asked for outside write_range
BadPlacement(p) ==
    \/ Lower(Strip(p.mode)) \notin PlacementModes
    \/ p.clear_target_range /\ Lower(Strip(p.mode)) # ModeWriteRange

\* the workbook `a` found at the target lacks the workbook or the sheet and
\* the caller disallowed making it
MissingDisallowed(p, a) ==
    \/ a.workbook = 0 /\ ~p.create_workbook_if_missing
    \/ /\ _tabular_normalize_sheet_name(p.sheet) \notin a.sheets
       /\ ~p.create_sheet_if_missing

\* C21: an update_from_export whose mode is no placement mode, that sets
\* clear_target_range outside write_range mode, or whose target workbook or
\* sheet is missing while the caller disallowed making it, is rejected with
\* VALIDATION_FAILED and leaves the target workbook as it was when the
\* request arrived; an update that succeeds leaves a workbook holding the
\* named sheet.
C21_UpdateRejections ==
    Answered("update_from_export") =>
        /\ BadPlacement(xreq) \/ MissingDisallowed(xreq, xh.art) =>
              /\ ~ret[1].ok
              /\ art = xh.art
        /\ BadPlacement(xreq) /\ Strip(xreq.sheet) # <<>> =>
              ret[1].code = "VALIDATION_FAILED"
        /\ MissingDisallowed(xreq, xh.art) /\ Strip(xreq.sheet) # <<>> /\ ~run.timed_out =>
              ret[1].code = "VALIDATION_FAILED"
        /\ ret[1].ok =>
              /\ art.workbook \notin {0, PartialFile}
              /\ _tabular_normalize_sheet_name(xreq.sheet) \in art.sheets

(***************************************************************************)
(* The statement of an export.                                             *)
(***************************************************************************)
\* the request of worker 1 is an export or an update and has been answered
ExportAnswered == Answered("export") \/ Answered("update_from_export")

\* the words order and by stand next to each other in the scanning copy
OrderByInCopy(items) ==
    LET tokens == Tokens(Lower(ScanningCopy(items)))
    IN \E i \in 1..Len(tokens) - 1 : tokens[i] = "order" /\ tokens[i + 1] = "by"

\* C26: without a query, or with a blank one, export and update_from_export
\* run SELECT * FROM data ORDER BY rowid and warn of nothing; a supplied
\* query is run as the validator returns it, with the warning that it has no
\* ORDER BY exactly when its scanning copy holds no order by; a query the
\* validator rejects is answered VALIDATION_FAILED before any statement ran
\* and with the target as it was.
C26_ExportQuerySelection ==
    ExportAnswered =>
        LET blank == Strip(Text(xreq.query)) = <<>>
            validated == _tabular_validate_query(Text(xreq.query))
        IN /\ run.safe # NotValidated /\ blank =>
                 /\ run.safe = Accepted(Text(QOrdered))
                 /\ run.warnings = {}
           /\ run.safe # NotValidated /\ ~blank =>
                 /\ run.safe = validated
                 /\ validated.ok
                 /\ NoOrderByWarning \in run.warnings <=> ~OrderByInCopy(xreq.query)
           /\ ~blank /\ ~validated.ok =>
                 /\ ~ret[1].ok
                 /\ run.safe = NotValidated
                 /\ xh.executed = {}
                 /\ art = xh.art
                 /\ run.target # NoFileId =>
                       /\ ret[1].code = "VALIDATION_FAILED"
                       /\ TargetContent(run.target) = xh.before

\* an export whose query names ORDER BY in a comment only was answered with
\* the warning
C26_Witness ==
    /\ Answered("export")
    /\ ret[1].ok
    /\ xreq.query = QOrderNote
    /\ run.warnings = {NoOrderByWarning}

(***************************************************************************)
(* Windows of query and read_rows.                                         *)
(***************************************************************************)
\* a query or a read_rows request was answered with a result
PagedAnswered == (Answered("query") \/ Answered("read_rows")) /\ ret[1].ok

\* the parameter was sent and is below zero, or zero when zero is not allowed
SentBelow(value, least) == value # NoNumber /\ value < Halves * least

\* C29: a result of query or read_rows reports as row_count the number of
\* rows it returns, which is at most the window asked for, and has_more
\* exactly when offset + row_count is below the reported total; a window
\* size or row_start that is zero or below and a window_offset below zero
\* are answered VALIDATION_FAILED.
C29_WindowResult ==
    /\ PagedAnswered =>
          /\ run.row_count = run.rows
          /\ run.row_count <= run.window
          /\ run.has_more <=> (run.offset + run.row_count < run.total)
    /\ Answered("query") /\ run.safe # NotValidated =>
          /\ run.window = IF xreq.window_rows = NoNumber THEN TABULAR_CHUNK_ROWS
                          ELSE xreq.window_rows \div Halves
          /\ run.offset * Halves = IF xreq.window_offset = NoNumber THEN 0
                                   ELSE xreq.window_offset
    /\ Answered("query") /\ ValidatedQuery[xreq.query].ok /\ req[1].path # <<>>
          /\ (SentBelow(xreq.window_rows, 1) \/ SentBelow(xreq.window_offset, 0)) =>
          /\ ~ret[1].ok
          /\ ret[1].code \in {"VALIDATION_FAILED", "FILE_READ_FAILED"}
          /\ run.conn = "closed" /\ xh.executed = {}
    /\ Answered("read_rows") /\ req[1].path # <<>>
          /\ (SentBelow(xreq.row_start, 1) \/ SentBelow(xreq.row_count, 1)) =>
          /\ ~ret[1].ok
          /\ ret[1].code \in {"VALIDATION_FAILED", "FILE_READ_FAILED"}
          /\ run = NoRun

(***************************************************************************)
(* Connections of the tabular operations.                                  *)
(***************************************************************************)
\* the steps of a request between the opening of its connection and the
\* close: of the rebuild (lines 5036-5058) and of the tools
RebuildOpenPcs == {"ingest", "close_rw"}
ToolOpenPcs == {"t_exec", "t_count", "t_close", "t_create", "t_rows", "t_build",
                "t_save", "t_saving"}

\* the steps of a request after its entry was returned
ToolPcs == ToolOpenPcs \cup {"cached", "t_query", "t_open", "t_invalidate", "u_load",
                            "u_mkstemp", "u_save", "u_replace", "u_cleanup"}

====
